---- MODULE Spec2Model ----
(***************************************************************************)
(* Model of the LangGraph agent of app/core/langgraph/graph.py: the        *)
(* chat / tool_call state graph, the retry and fallback loop of the chat   *)
(* node, the tool node, the checkpointed conversation state and the        *)
(* filtered view that get_response returns through the /chat endpoint.     *)
(*                                                                         *)
(* One LangGraphAgent object serves every request (api/v1/chatbot.py:37).  *)
(* Requests are handled by coroutines that interleave at every await: a    *)
(* model call, a tool invocation.  Each coroutine is a worker below.       *)
(***************************************************************************)
EXTENDS Integers, Sequences, FiniteSets, TLC

(* ------------------------------ bounds --------------------------------- *)

\* Largest value of settings.MAX_LLM_CALL_RETRIES explored (default 3).
MaxRetriesCap == 3

\* Most tool calls one assistant turn carries.
MaxToolCalls == 2

\* Most messages checkpointed in one behaviour, all sessions together.  A
\* request is taken, and a turn with tool calls is produced, only while room
\* is left for what it leads to: the tool results and the final reply.
MaxHistory == 5

(* --------------------------- fixed universes --------------------------- *)

\* Requests are served one at a time under Spec.
Workers == {"w1"}

Sessions == {"s1", "s2"}

\* app/core/config.py Environment.  The agent only ever tests for PRODUCTION
\* in the code modelled here; staging and test take development's branches.
Environments == {"development", "production"}

\* settings.LLM_MODEL (default) and the fallback of _chat
LLM_MODEL == "gpt-4o-mini"

fallback_model == "gpt-4o"

\* Names in tools_by_name; the registry list lives in app/core/langgraph/tools.
tools_by_name == {"search", "calc"}

\* A name the model may hallucinate that is in no registry.
UnknownTool == "bogus"

END == "__end__"

\* Content classes: empty, a reply within the Message schema's limits, and a
\* reply longer than the schema's max_length.
Contents == {"", "txt", "long"}

max_length == 3000

ContentLen(c) == CASE c = "" -> 0 [] c = "txt" -> 3 [] OTHER -> max_length + 1

\* A call id is the pair <<position of the assistant turn, index of the call>>;
\* a message that answers no call has none.
NoId == <<>>

(* ----------------------------- messages -------------------------------- *)

\* A LangChain message of the graph state.
Msg(t, c, tcs, tcid, n) ==
    [type |-> t, content |-> c, tool_calls |-> tcs, tool_call_id |-> tcid, name |-> n]

HumanMessage(c) == Msg("human", c, <<>>, NoId, "")

SystemMessage(c) == Msg("system", c, <<>>, NoId, "")

AIMessage(c, tcs) == Msg("ai", c, tcs, NoId, "")

ToolMessage(c, n, tcid) == Msg("tool", c, <<>>, tcid, n)

\* app/schemas/chat.py Message: role and content only.
Message(r, c) == [role |-> r, content |-> c]

\* Message.model_dump() for every message of a request.
dump_messages(messages) == messages

\* What add_messages makes of a dumped {role, content} dict.
CoerceMessage(d) ==
    CASE d.role = "user" -> HumanMessage(d.content)
      [] d.role = "assistant" -> AIMessage(d.content, <<>>)
      [] OTHER -> SystemMessage(d.content)

IsGraphMsg(x) == "type" \in DOMAIN x

add_messages_moving_duplicates(left, right) ==
    LET new == [i \in 1..Len(right) |->
                   IF IsGraphMsg(right[i]) THEN right[i] ELSE CoerceMessage(right[i])]
        Fresh(m) == \A i \in 1..Len(new) : new[i] # m
    IN  SelectSeq(left, Fresh) \o new

\* The reducer of GraphState.messages.  Every message that reaches it here
\* carries a fresh id (request dicts and ToolMessages have none and get a
\* uuid4, a model reply has the provider's run id), so the merge by id never
\* replaces and the right list is appended in order.
add_messages(left, right) ==
    left \o [i \in 1..Len(right) |->
                IF IsGraphMsg(right[i]) THEN right[i] ELSE CoerceMessage(right[i])]

Last(s) == s[Len(s)]

(* --------------------------- the state graph --------------------------- *)

entry_point == "chat"

edges_without_return == {<<"tool_call", "tool_call">>, <<"chat", END>>}

\* add_edge("tool_call", "chat") and set_finish_point("chat")
edges == {<<"tool_call", "chat">>, <<"chat", END>>}

\* add_conditional_edges("chat", _should_continue, {...})
conditional_edges == [continue |-> "tool_call", end |-> END]

should_continue_always(messages) == "continue"

should_continue(messages) ==
    IF Last(messages).tool_calls = <<>> THEN "end" ELSE "continue"

\* The nodes triggered after `node` ran on `messages`: the targets of its
\* plain edges and, for chat, of the branch; END triggers nothing.
NextNodes(node, messages) ==
    ({e[2] : e \in {x \in edges : x[1] = node}}
       \cup (IF node = "chat"
               THEN {conditional_edges[should_continue(messages)]}
               ELSE {}))
    \ {END}

\* Where the run stands after `node`: the triggered node, or "end" when
\* nothing is triggered.
Route(node, messages) ==
    LET nxt == NextNodes(node, messages)
    IN  IF nxt = {} THEN "end" ELSE CHOOSE n \in nxt : TRUE

(* ------------------------- the filtered view --------------------------- *)

OpenAIRole(t) ==
    CASE t = "human" -> "user"
      [] t = "ai" -> "assistant"
      [] t = "system" -> "system"
      [] OTHER -> "tool"

\* convert_to_openai_messages, one message
convert_to_openai_message(m) ==
    [role |-> OpenAIRole(m.type), content |-> m.content,
     tool_calls |-> m.tool_calls, tool_call_id |-> m.tool_call_id]

kept_whatever_role(om) == om.content # ""

\* The filter of __process_messages.
kept(om) == om.role \in {"assistant", "user"} /\ om.content # ""

\* Message(**message): the schema's role literal and length validation.
MessageValid(om) ==
    /\ om.role \in {"user", "assistant", "system"}
    /\ ContentLen(om.content) >= 1
    /\ ContentLen(om.content) <= max_length

OpenAIStyle(messages) ==
    [i \in 1..Len(messages) |-> convert_to_openai_message(messages[i])]

\* __process_messages when every Message(**message) validates.
process_messages(messages) ==
    LET kept_ones == SelectSeq(OpenAIStyle(messages), kept)
    IN  [i \in 1..Len(kept_ones) |-> Message(kept_ones[i].role, kept_ones[i].content)]

\* Whether __process_messages raises a ValidationError.
process_messages_raises(messages) ==
    \E i \in 1..Len(messages) :
        LET om == convert_to_openai_message(messages[i])
        IN  kept(om) /\ ~MessageValid(om)

(* ------------------------- prepare_messages ---------------------------- *)

SYSTEM_PROMPT == "system-prompt"

\* settings.MAX_TOKENS, the budget handed to trim_messages
MAX_TOKENS == 2000

\* The token counter on one message: a few tokens of framing plus the
\* content; "txt" stands for a content near the schema's limit.
TokensOf(m) == CASE m.content = "" -> 4 [] m.content = "txt" -> 600 [] OTHER -> 900

RECURSIVE TokenCount(_)
TokenCount(messages) ==
    IF messages = <<>> THEN 0
    ELSE TokensOf(messages[1]) + TokenCount(Tail(messages))

Suffix(messages, k) == SubSeq(messages, Len(messages) - k + 1, Len(messages))

trim_messages_oldest(messages) ==
    LET fits == {k \in 0..Len(messages) : TokenCount(SubSeq(messages, 1, k)) <= MAX_TOKENS}
    IN  SubSeq(messages, 1, CHOOSE k \in fits : \A j \in fits : j <= k)

\* trim_messages(strategy="last", start_on="human", include_system=False,
\* allow_partial=False): the longest suffix within the budget, then its
\* oldest messages dropped until it starts on a human message.
trim_messages(messages) ==
    LET fits == {k \in 0..Len(messages) : TokenCount(Suffix(messages, k)) <= MAX_TOKENS}
        k0 == CHOOSE k \in fits : \A j \in fits : j <= k
        starts == {k \in 0..k0 : k = 0 \/ Suffix(messages, k)[1].type = "human"}
        k1 == CHOOSE k \in starts : \A j \in starts : j <= k
    IN  Suffix(messages, k1)

prepare_messages(messages) == <<SystemMessage(SYSTEM_PROMPT)>> \o trim_messages(messages)

(* ------------------------------- state --------------------------------- *)

VARIABLES
    ENVIRONMENT,    \* settings.ENVIRONMENT
    max_retries,    \* settings.MAX_LLM_CALL_RETRIES
    model_name,     \* agent.llm.model_name, shared by every request
    store,          \* checkpointer: session id -> messages of the latest checkpoint
    rows,           \* session id -> checkpoint tables that hold rows of the thread
    pc,             \* worker -> "idle" | "chat" | "tool_call" | "end" | "failed"
    session_id,     \* worker -> session of its request
    messages,       \* worker -> GraphState.messages of its run
    attempt,        \* worker -> loop variable of _chat
    outputs,        \* worker -> local list of _tool_call
    response,       \* worker -> what the endpoint answered
    calls,          \* worker -> model calls of the latest chat-node execution
    offered,        \* worker -> message list of the latest model call
    base,           \* worker -> length of the state when the run entered the graph
    mode,           \* worker -> endpoint of its request: "run" | "stream" | "history" | "clear"
    events,         \* worker -> events the consumer of its stream has received
    deleted,        \* worker -> whether the DELETEs of its clear matched rows
    requests,       \* requests counted under SpecConcurrent
    agent,          \* agent._graph, agent._connection_pool, and the pools it has made
    via,            \* worker -> the compiled graph its request runs on
    database,       \* whether PostgreSQL answers: "up" | "down"
    restarts        \* restarts of the agent's process so far

vars == <<ENVIRONMENT, max_retries, model_name, store, rows, pc, session_id, messages,
          attempt, outputs, response, calls, offered, base, mode, events, deleted,
          requests, agent, via, database, restarts>>

NoResponse == [status |-> "none", messages |-> <<>>, detail |-> ""]

\* Where a coroutine is when it has no request in hand: it never had one, or
\* its last one ended, failed or was cancelled.
Free == {"idle", "end", "failed", "cancelled"}

\* Request bodies: ChatRequest.messages, validated by the Message schema.
Inputs ==
    { <<Message("user", "txt")>>,
      <<Message("system", "txt"), Message("user", "txt")>> }

RECURSIVE SeqsUpTo(_, _)
SeqsUpTo(S, n) ==
    IF n = 0 THEN {<<>>}
    ELSE LET shorter == SeqsUpTo(S, n - 1)
         IN  shorter \cup {Append(q, x) : q \in {r \in shorter : Len(r) = n - 1}, x \in S}

\* Tool names the model may put in a call.
ToolUniverse == tools_by_name \cup {UnknownTool}

\* Registered tools are interchangeable, so of the call lists that differ only
\* by renaming them one is kept: "calc" is asked only after "search".
Canonical(ns) ==
    \A j \in 1..Len(ns) : ns[j] = "calc" => \E i \in 1..(j - 1) : ns[i] = "search"

ToolCallLists == {ns \in SeqsUpTo(ToolUniverse, MaxToolCalls) : ns # <<>> /\ Canonical(ns)}

\* Content of an assistant turn that asks for tools: usually none.
ToolTurnContents == {"", "txt"}

RECURSIVE Persisted(_)
\* Number of checkpointed messages of the sessions in S.
Persisted(S) ==
    IF S = {} THEN 0
    ELSE LET s == CHOOSE x \in S : TRUE IN Len(store[s]) + Persisted(S \ {s})

\* What one model call can return at position p of the state: a final turn of
\* any content class, or a turn with tool calls, whose ids are unique.
Replies(p) ==
    {AIMessage(c, <<>>) : c \in Contents}
    \cup {AIMessage(c, [j \in 1..Len(ns) |-> [id |-> <<p, j>>, name |-> ns[j]]]) :
             c \in ToolTurnContents,
             ns \in {l \in ToolCallLists : Persisted(Sessions) + Len(l) + 2 <= MaxHistory}}

\* __init__: self._connection_pool = None, self._graph = None
NewAgent == [graph |-> "none", connection_pool |-> "none", pools |-> 0]

\* The agent and the settings after import, before any request, with the
\* coroutines W ready to serve.
BootOn(W, S) ==
    /\ ENVIRONMENT \in Environments
    /\ max_retries \in 1..MaxRetriesCap
    /\ model_name = LLM_MODEL
    /\ store = [s \in S |-> <<>>]
    /\ rows = [s \in S |-> {}]
    /\ pc = [w \in W |-> "idle"]
    /\ session_id = [w \in W |-> "s1"]
    /\ messages = [w \in W |-> <<>>]
    /\ attempt = [w \in W |-> 0]
    /\ outputs = [w \in W |-> <<>>]
    /\ response = [w \in W |-> NoResponse]
    /\ calls = [w \in W |-> <<>>]
    /\ offered = [w \in W |-> <<>>]
    /\ base = [w \in W |-> 0]
    /\ mode = [w \in W |-> "run"]
    /\ events = [w \in W |-> <<>>]
    /\ deleted = [w \in W |-> FALSE]
    /\ requests = 0
    /\ agent = NewAgent
    /\ via = [w \in W |-> "none"]
    /\ database = "up"
    /\ restarts = 0

\* The agent with the threads of Sessions in reach.
Boot(W) == BootOn(W, Sessions)

Init == Boot(Workers)

\* What no request handler assigns: the settings, and the world around the
\* agent's process.
config_vars == <<ENVIRONMENT, max_retries, database, restarts>>

(* ------------------------- the stream endpoint ------------------------- *)

\* app/schemas/chat.py StreamResponse
StreamResponse(c, d) == [content |-> c, done |-> d]

\* The chunks a reply of content c arrives in when the model call streams; the
\* reply's content is their concatenation.
Chunks(c) == CASE c = "" -> <<"">> [] c = "txt" -> <<"t", "xt">> [] OTHER -> <<"lo", "ng">>

\* The tokens astream(stream_mode="messages") hands out for a model reply.
MessageChunks(reply) ==
    [i \in 1..Len(Chunks(reply.content)) |-> [content |-> Chunks(reply.content)[i]]]

\* Tokens a model call may have handed out before the connection broke in
\* the middle of the reply: none, or the first chunk.  Only a streamed call
\* hands out tokens.  (A provider error answers the request as a whole,
\* before any token.)
PartialTokens(w) ==
    IF mode[w] = "stream" THEN {<<>>, <<[content |-> "t"]>>} ELSE {<<>>}

fragment_event_done(chunk) == StreamResponse(chunk, TRUE)

\* event_generator on one chunk: StreamResponse(content=chunk, done=False)
fragment_event(chunk) == StreamResponse(chunk, FALSE)

\* get_stream_response yields token.content for every token of the graph's
\* stream and event_generator turns each into an event.
yield_all(evts, tokens) ==
    evts \o [i \in 1..Len(tokens) |-> fragment_event(tokens[i].content)]

\* event_generator after the loop: the sentinel
on_stream_end(evts) == Append(evts, StreamResponse("", TRUE))

on_stream_error_reraise(evts, e) == evts

\* event_generator's except branch: StreamResponse(content=str(e), done=True)
on_stream_error(evts, e) == Append(evts, StreamResponse(e, TRUE))

\* What the consumer of w's stream holds after a step that handed out
\* `tokens` and left the run at nxt ("failed" with the exception e).
Emit(w, tokens, nxt, e) ==
    events' = [events EXCEPT ![w] =
                  IF mode[w] # "stream" THEN @
                  ELSE LET evts == yield_all(@, tokens)
                       IN  CASE nxt = "end" -> on_stream_end(evts)
                             [] nxt = "failed" -> on_stream_error(evts, e)
                             [] OTHER -> evts]

\* Exceptions that `except Exception` does not catch: they derive from
\* BaseException only.  A closed generator gets GeneratorExit at its yield, a
\* cancelled task CancelledError at its await.
IsException(e) == e \notin {"CancelledError", "GeneratorExit"}

token_handler_catches_all(e) == TRUE

\* get_stream_response, around the yield: except Exception -> continue
token_handler_catches(e) == IsException(e)

\* event_generator: except Exception -> the error event
generator_handler_catches(e) == IsException(e)

\* What the closing of w's stream throws into it: CancelledError where it
\* awaits the graph, or GeneratorExit at the yield of a fragment.
Thrown(w) ==
    IF events[w] = <<>> THEN {"CancelledError"} ELSE {"CancelledError", "GeneratorExit"}

\* The client of w's stream disconnects and the response's body iterator is
\* closed.  GeneratorExit passes the handler around the yield, or the loop
\* over astream goes on; what leaves get_stream_response passes the handler
\* of event_generator, or becomes one more event; what passes both ends the
\* generators, and the graph's execution with them.
Disconnect(w) ==
    /\ mode[w] = "stream"
    /\ pc[w] \in {"chat", "tool_call"}
    /\ \E e \in Thrown(w) :
         LET resumed == e = "GeneratorExit" /\ token_handler_catches(e)
             reported == ~resumed /\ generator_handler_catches(e)
         IN  /\ pc' = [pc EXCEPT ![w] = IF resumed THEN @ ELSE "cancelled"]
             /\ events' = [events EXCEPT ![w] =
                              IF reported THEN on_stream_error(@, e) ELSE @]
    /\ mode' = [mode EXCEPT ![w] = "closed"]
    /\ UNCHANGED <<config_vars, agent, via,
                   model_name, store, rows, session_id, messages, attempt, outputs, response,
                   calls, offered, base, deleted>>

(* ----------------------------- get_response ---------------------------- *)

swallowed_error(e) == [status |-> "200", messages |-> <<>>, detail |-> e]

\* The endpoint's answer when the agent raises e:
\* HTTPException(status_code=500, detail=str(e)).
chat_error(e) == [status |-> "500", messages |-> <<>>, detail |-> e]

\* get_response after ainvoke returned the final state `final`.
Respond(final) ==
    IF process_messages_raises(final) THEN chat_error("ValidationError")
    ELSE [status |-> "200", messages |-> process_messages(final), detail |-> ""]

\* What /chat has answered after a step that left the run at nxt; the stream
\* endpoint has answered with the stream itself and says the rest in events.
Answer(w, nxt, state, e) ==
    response' = [response EXCEPT ![w] =
                    IF mode[w] # "run" THEN @
                    ELSE CASE nxt = "end" -> Respond(state)
                           [] nxt = "failed" -> chat_error(e)
                           [] OTHER -> @]

load_nothing(checkpoints, s) == <<>>

\* The messages of the thread's latest checkpoint, none when it has none.
load_checkpoint(checkpoints, s) == checkpoints[s]

\* What a graph compiled as g starts a run from: its checkpointer's latest
\* checkpoint of the thread; compiled with checkpointer=None, nothing.
resume_from_nothing(g, checkpoints, s) == <<>>

\* The state an invocation starts from on a graph compiled as g: what the
\* checkpointer loads for the thread, and nothing without checkpointer.
resume(g, checkpoints, s) ==
    IF g = "checkpointed" THEN load_checkpoint(checkpoints, s) ELSE <<>>

\* The checkpoint a graph compiled as g writes after a superstep; compiled
\* with checkpointer=None it writes none.
put(g, checkpoints, s, state) ==
    IF g = "checkpointed" THEN [checkpoints EXCEPT ![s] = state] ELSE checkpoints

\* settings.CHECKPOINT_TABLES, in the order clear_chat_history goes through
CHECKPOINT_TABLES == <<"checkpoint_blobs", "checkpoint_writes", "checkpoints">>

Tables(k) == {CHECKPOINT_TABLES[i] : i \in 1..k}

\* The tables a checkpointed superstep leaves rows of the thread in: the
\* checkpoint, the blobs of its channels and the writes of its tasks.
put_rows(g, tables, s) ==
    IF g = "checkpointed" THEN [tables EXCEPT ![s] = Tables(Len(CHECKPOINT_TABLES))]
    ELSE tables

\* _get_connection_pool when nothing raises: the pool is made on the first
\* call and handed out after that.
pool_acquired(a) ==
    IF a.connection_pool = "none"
      THEN [a EXCEPT !.connection_pool = "open", !.pools = @ + 1]
      ELSE a

\* create_graph when nothing raises: the graph is compiled on the first
\* call, over the pool, and handed out after that.
graph_created(a) ==
    IF a.graph = "none" THEN [pool_acquired(a) EXCEPT !.graph = "checkpointed"] ELSE a

\* ainvoke / astream of the graph compiled as g, through endpoint m: the
\* session's checkpoint is loaded, the request's messages are merged into
\* it, the input is checkpointed and the entry point is triggered.
EnterGraph(w, s, input, m, g) ==
    /\ LET state == add_messages(resume(g, store, s), dump_messages(input))
       IN  /\ messages' = [messages EXCEPT ![w] = state]
           /\ store' = put(g, store, s, state)
           /\ rows' = put_rows(g, rows, s)
           /\ base' = [base EXCEPT ![w] = Len(state)]
    /\ via' = [via EXCEPT ![w] = g]
    /\ pc' = [pc EXCEPT ![w] = entry_point]
    /\ session_id' = [session_id EXCEPT ![w] = s]
    /\ attempt' = [attempt EXCEPT ![w] = 0]
    /\ outputs' = [outputs EXCEPT ![w] = <<>>]
    /\ response' = [response EXCEPT ![w] = NoResponse]
    /\ calls' = [calls EXCEPT ![w] = <<>>]
    /\ mode' = [mode EXCEPT ![w] = m]
    /\ events' = [events EXCEPT ![w] = <<>>]
    /\ deleted' = [deleted EXCEPT ![w] = FALSE]
    /\ UNCHANGED <<config_vars, model_name, offered>>

\* A request enters the graph while the database answers: the graph is
\* there, or is created on the way without a failure.
Invoke(w, s, input, m) ==
    /\ pc[w] \in Free
    /\ Persisted(Sessions) + Len(input) + 1 <= MaxHistory
    \* session ids are interchangeable: the first request's is called s1
    /\ (Persisted(Sessions) = 0 /\ \A v \in DOMAIN pc : pc[v] \in Free)
          => s = "s1"
    /\ database = "up"
    /\ agent' = graph_created(agent)
    /\ EnterGraph(w, s, input, m, agent'.graph)

\* POST /chat: agent.get_response
StartRun(w, s, input) == Invoke(w, s, input, "run")

\* POST /chat/stream: agent.get_stream_response under event_generator
StartStream(w, s, input) == Invoke(w, s, input, "stream")

(* ------------------------- the recursion limit ------------------------ *)

\* The config get_response and get_stream_response hand to ainvoke and
\* astream names no recursion_limit, so the executor's default is in force:
\* a run is given that many supersteps, one per node execution.
recursion_limit == 25

\* Rounds of tool calls whose results are in the state of w's run.
ToolRounds(w) ==
    Cardinality({i \in (base[w] + 1)..(Len(messages[w]) - 1) :
                    messages[w][i].type = "ai" /\ messages[w][i].tool_calls # <<>>})

\* Node executions w's run has completed: its assistant turns and its
\* rounds of tool calls.
Supersteps(w) ==
    Cardinality({i \in (base[w] + 1)..Len(messages[w]) : messages[w][i].type = "ai"})
        + ToolRounds(w)

never_out_of_steps(n) == FALSE

\* The executor's test before a superstep.
out_of_steps(n) == n >= recursion_limit

\* A node of w's run may execute.
HasSteps(w) == ~out_of_steps(Supersteps(w))

(* --------------------------- GraphState -------------------------------- *)

\* A well-formed UUID, as the auth layer hands out for sessions
NilUUID == "00000000-0000-0000-0000-000000000000"

\* The session ids explored at the boundary, besides those of Sessions: a
\* UUID, and ids with a space, a slash, and a line feed at the end.
SessionIds == {"s1", NilUUID, "s 1", "s/1", "s1\n"}

\* The characters of a session id
Characters(id) ==
    CASE id = "s1" -> <<"s", "1">>
      [] id = "s2" -> <<"s", "2">>
      [] id = NilUUID -> [i \in 1..36 |-> IF i \in {9, 14, 19, 24} THEN "-" ELSE "0"]
      [] id = "s 1" -> <<"s", " ", "1">>
      [] id = "s/1" -> <<"s", "/", "1">>
      [] id = "s1\n" -> <<"s", "1", "\n">>

Digits == {"0", "1", "2", "3", "4", "5", "6", "7", "8", "9"}

Lower ==
    {"a", "b", "c", "d", "e", "f", "g", "h", "i", "j", "k", "l", "m",
     "n", "o", "p", "q", "r", "s", "t", "u", "v", "w", "x", "y", "z"}

Upper ==
    {"A", "B", "C", "D", "E", "F", "G", "H", "I", "J", "K", "L", "M",
     "N", "O", "P", "Q", "R", "S", "T", "U", "V", "W", "X", "Y", "Z"}

\* [a-zA-Z0-9_\-]
SafeCharacters == Lower \cup Upper \cup Digits \cup {"_", "-"}

HexDigits == Digits \cup {"a", "b", "c", "d", "e", "f", "A", "B", "C", "D", "E", "F"}

RECURSIVE strip(_, _)
\* str.strip(set): the characters of `set` are taken off both ends.
strip(chars, set) ==
    IF chars = <<>> THEN chars
    ELSE IF Head(chars) \in set THEN strip(Tail(chars), set)
    ELSE IF chars[Len(chars)] \in set THEN strip(SubSeq(chars, 1, Len(chars) - 1), set)
    ELSE chars

\* uuid.UUID(v) does not raise: braces stripped and hyphens removed, 32
\* hexadecimal digits are left.  (The prefixes urn: and uuid: are removed
\* as well; no id explored carries one.)
uuid_parses(chars) ==
    LET IsDigit(c) == c # "-"
        hex == SelectSeq(strip(chars, {"{", "}"}), IsDigit)
    IN  Len(hex) = 32 /\ \A i \in 1..32 : hex[i] \in HexDigits

\* re.match(r"^[a-zA-Z0-9_\-]+$", v): `$` matches at the end of the string
\* and also before a line feed that ends it.
safe_pattern_matches(chars) ==
    LET body == IF chars # <<>> /\ chars[Len(chars)] = "\n"
                  THEN SubSeq(chars, 1, Len(chars) - 1) ELSE chars
    IN  body # <<>> /\ \A i \in 1..Len(body) : body[i] \in SafeCharacters

\* GraphState.validate_session_id does not raise.
validate_session_id(chars) == uuid_parses(chars) \/ safe_pattern_matches(chars)

\* The state handed to a node of w's run coerces to GraphState.
Coerced(w) == validate_session_id(Characters(session_id[w]))

\* A node is about to execute and the state does not coerce to GraphState:
\* the ValidationError ends the run.  The input has been checkpointed by
\* then; the node's body has not run.
StateRejected(w) ==
    /\ pc[w] \in {"chat", "tool_call"}
    /\ HasSteps(w)
    /\ ~Coerced(w)
    /\ pc' = [pc EXCEPT ![w] = "failed"]
    /\ Answer(w, "failed", messages[w], "ValidationError")
    /\ Emit(w, <<>>, "failed", "ValidationError")
    /\ UNCHANGED <<config_vars, requests, agent, via, model_name, store, rows, session_id,
                   messages, attempt, outputs, calls, offered, base, mode, deleted>>

(* ------------------------------- _chat --------------------------------- *)

in_range_off_by_one(a) == a <= max_retries

\* for attempt in range(max_retries)
in_range(a) == a < max_retries

switches_after_last(a) == ENVIRONMENT = "production" /\ a = max_retries - 1

\* the fallback condition of the except branch
switches_to_fallback(a) == ENVIRONMENT = "production" /\ a = max_retries - 2

chat_update_with_prompt(state, reply) == prepare_messages(state) \o <<reply>>

\* the update the node returns: {"messages": [reply]}
chat_update(state, reply) == <<reply>>

\* await self.llm.ainvoke(dump_messages(messages)) on the model the shared
\* client names at that moment, with the list prepare_messages built.
LogCall(w, outcome) ==
    /\ calls' = [calls EXCEPT ![w] = Append(@, [model |-> model_name, outcome |-> outcome])]
    /\ offered' = [offered EXCEPT ![w] = dump_messages(prepare_messages(messages[w]))]

\* An attempt succeeds: the node returns, the reducer appends the reply, the
\* superstep is checkpointed and the branch picks the next node; when nothing
\* is triggered ainvoke returns and get_response builds the filtered view.
\* In a stream the reply's chunks have gone to the consumer.
ChatOk(w, reply) ==
    /\ pc[w] = "chat"
    /\ HasSteps(w)
    /\ Coerced(w)
    /\ in_range(attempt[w])
    /\ LogCall(w, "ok")
    /\ LET state == add_messages(messages[w], chat_update(messages[w], reply))
           nxt == Route("chat", state)
       IN  /\ messages' = [messages EXCEPT ![w] = state]
           /\ store' = put(via[w], store, session_id[w], state)
           /\ rows' = put_rows(via[w], rows, session_id[w])
           /\ pc' = [pc EXCEPT ![w] = nxt]
           /\ Answer(w, nxt, state, "")
           /\ Emit(w, MessageChunks(reply), nxt, "")
    /\ outputs' = [outputs EXCEPT ![w] = <<>>]
    /\ UNCHANGED <<config_vars, requests, agent, via,
                   model_name, session_id, attempt, base, mode, deleted>>

chat_handler_catches_all(e) == TRUE

\* except OpenAIError as e
chat_handler_catches(e) == e = "OpenAIError"

\* The except branch of the attempt loop, and `continue`: the failure is
\* counted, the shared model may be switched, and the next attempt follows,
\* or the raise after the loop.
Retry(w) ==
    /\ model_name' = IF switches_to_fallback(attempt[w]) THEN fallback_model ELSE model_name
    /\ attempt' = [attempt EXCEPT ![w] = @ + 1]
    /\ LET nxt == IF in_range(attempt[w] + 1) THEN "chat" ELSE "failed"
       IN  /\ pc' = [pc EXCEPT ![w] = nxt]
           /\ Answer(w, nxt, messages[w], "RetriesExhausted")
           /\ Emit(w, <<>>, nxt, "RetriesExhausted")
    /\ UNCHANGED <<config_vars, requests, agent, via,
                   store, rows, session_id, messages, outputs, base, mode,
                   deleted>>

\* The exception of an attempt leaves the node.
Propagate(w, e) ==
    /\ pc' = [pc EXCEPT ![w] = "failed"]
    /\ Answer(w, "failed", messages[w], e)
    /\ \E partial \in PartialTokens(w) : Emit(w, partial, "failed", e)
    /\ UNCHANGED <<config_vars, requests, agent, via,
                   model_name, store, rows, session_id, messages, attempt,
                   outputs, base, mode, deleted>>

\* An attempt raises OpenAIError: the except branch counts it, may switch
\* the shared model to the fallback, and the loop goes on; when the range is
\* used up the node raises and the endpoint answers 500, or closes the stream
\* with the error.
ChatOpenAIError(w) ==
    /\ pc[w] = "chat"
    /\ HasSteps(w)
    /\ Coerced(w)
    /\ in_range(attempt[w])
    /\ LogCall(w, "OpenAIError")
    /\ IF chat_handler_catches("OpenAIError") THEN Retry(w) ELSE Propagate(w, "OpenAIError")

\* An attempt raises something that is not an OpenAIError: no handler in the
\* node, the run fails at once.
ChatOtherError(w) ==
    /\ pc[w] = "chat"
    /\ HasSteps(w)
    /\ Coerced(w)
    /\ in_range(attempt[w])
    /\ LogCall(w, "Exception")
    /\ IF chat_handler_catches("Exception") THEN Retry(w) ELSE Propagate(w, "Exception")

(* ----------------------------- _tool_call ------------------------------ *)

pending(w) == Last(messages[w]).tool_calls

\* The call the loop of _tool_call is at.
current_call(w) == pending(w)[Len(outputs[w]) + 1]

tool_message_first_id(calls_, tool_call) ==
    ToolMessage("txt", tool_call.name, calls_[1].id)

\* ToolMessage(content=tool_result, name=..., tool_call_id=...)
tool_message(calls_, tool_call) ==
    ToolMessage("txt", tool_call.name, tool_call.id)

collect_in_front(outs, m) == <<m>> \o outs

\* outputs.append(...)
collect(outs, m) == Append(outs, m)

keep_partial_outputs(state, outs) == add_messages(state, outs)

\* What a failing node leaves of the state: its local outputs are dropped.
state_after_failure(state, outs) == state

\* One tool invocation returns; after the last one the node returns its
\* outputs, the reducer appends them, the superstep is checkpointed and the
\* edge leads back to chat.  In a stream the messages the node returned go to
\* the consumer as tokens as well.
ToolOk(w) ==
    /\ pc[w] = "tool_call"
    /\ HasSteps(w)
    /\ Coerced(w)
    /\ Len(outputs[w]) < Len(pending(w))
    /\ current_call(w).name \in tools_by_name
    /\ LET outs == collect(outputs[w], tool_message(pending(w), current_call(w)))
       IN  IF Len(outs) < Len(pending(w))
             THEN /\ outputs' = [outputs EXCEPT ![w] = outs]
                  /\ UNCHANGED <<messages, store, rows, pc, attempt, calls, events>>
             ELSE LET state == add_messages(messages[w], outs)
                  IN  /\ outputs' = [outputs EXCEPT ![w] = <<>>]
                      /\ messages' = [messages EXCEPT ![w] = state]
                      /\ store' = put(via[w], store, session_id[w], state)
                      /\ rows' = put_rows(via[w], rows, session_id[w])
                      /\ pc' = [pc EXCEPT ![w] = Route("tool_call", state)]
                      /\ attempt' = [attempt EXCEPT ![w] = 0]
                      /\ calls' = [calls EXCEPT ![w] = <<>>]
                      /\ Emit(w, outs, Route("tool_call", state), "")
    /\ UNCHANGED <<config_vars, requests, agent, via,
                   model_name, session_id, response, offered, base,
                   mode, deleted>>

\* The node fails: `raised` says how.  Nothing of the superstep is written.
ToolFails(w, raised) ==
    /\ pc' = [pc EXCEPT ![w] = "failed"]
    /\ Answer(w, "failed", messages[w], raised)
    /\ Emit(w, <<>>, "failed", raised)
    /\ LET state == state_after_failure(messages[w], outputs[w])
       IN  /\ messages' = [messages EXCEPT ![w] = state]
           /\ store' = IF state = messages[w] THEN store
                       ELSE put(via[w], store, session_id[w], state)
           /\ rows' = IF state = messages[w] THEN rows
                      ELSE put_rows(via[w], rows, session_id[w])
    /\ outputs' = [outputs EXCEPT ![w] = <<>>]
    /\ UNCHANGED <<config_vars, requests, agent, via,
                   model_name, session_id, attempt, calls, offered, base,
                   mode, deleted>>

\* tools_by_name[tool_call["name"]] raises KeyError for an unregistered name.
ToolUnknown(w) ==
    /\ pc[w] = "tool_call"
    /\ HasSteps(w)
    /\ Coerced(w)
    /\ Len(outputs[w]) < Len(pending(w))
    /\ current_call(w).name \notin tools_by_name
    /\ ToolFails(w, "KeyError")

\* A registered tool's ainvoke raises.
ToolRaises(w) ==
    /\ pc[w] = "tool_call"
    /\ HasSteps(w)
    /\ Coerced(w)
    /\ Len(outputs[w]) < Len(pending(w))
    /\ current_call(w).name \in tools_by_name
    /\ ToolFails(w, "ToolException")

\* The run is out of supersteps with a node still to execute: the executor
\* raises GraphRecursionError.
OutOfSteps(w) ==
    /\ pc[w] \in {"chat", "tool_call"}
    /\ ~HasSteps(w)
    /\ pc' = [pc EXCEPT ![w] = "failed"]
    /\ Answer(w, "failed", messages[w], "GraphRecursionError")
    /\ Emit(w, <<>>, "failed", "GraphRecursionError")
    /\ UNCHANGED <<config_vars, requests, agent, via,
                   model_name, store, rows, session_id, messages, attempt, outputs, calls,
                   offered, base, mode, deleted>>

(* ------------------------ history and clear ---------------------------- *)

\* A request that runs no graph leaves the coroutine without a run's locals.
NoRun(w) ==
    /\ messages' = [messages EXCEPT ![w] = <<>>]
    /\ attempt' = [attempt EXCEPT ![w] = 0]
    /\ outputs' = [outputs EXCEPT ![w] = <<>>]
    /\ calls' = [calls EXCEPT ![w] = <<>>]
    /\ offered' = [offered EXCEPT ![w] = <<>>]
    /\ base' = [base EXCEPT ![w] = 0]
    /\ events' = [events EXCEPT ![w] = <<>>]

state_values_before_last(checkpoints, s) ==
    IF checkpoints[s] = <<>> THEN <<>> ELSE SubSeq(checkpoints[s], 1, Len(checkpoints[s]) - 1)

\* state.values["messages"] of get_state; state.values is empty when the
\* thread has no checkpoint.
state_values(checkpoints, s) == checkpoints[s]

history_reversed(values) ==
    LET view == process_messages(values)
    IN  [i \in 1..Len(view) |-> view[Len(view) + 1 - i]]

\* get_chat_history's return value
get_chat_history(values) == IF values # <<>> THEN process_messages(values) ELSE <<>>

history_raises_on_missing(values) == values = <<>> \/ process_messages_raises(values)

\* Whether get_chat_history raises: only __process_messages can, and it is
\* called only when there are values.
history_raises(values) == values # <<>> /\ process_messages_raises(values)

\* GET /messages: agent.get_chat_history(session.id)
GetChatHistory(w, s) ==
    /\ pc[w] \in Free
    /\ LET values == state_values(store, s)
       IN  response' = [response EXCEPT ![w] =
                           IF history_raises(values) THEN chat_error("ValidationError")
                           ELSE [status |-> "200", messages |-> get_chat_history(values),
                                 detail |-> ""]]
    /\ session_id' = [session_id EXCEPT ![w] = s]
    /\ mode' = [mode EXCEPT ![w] = "history"]
    /\ deleted' = [deleted EXCEPT ![w] = FALSE]
    /\ NoRun(w)
    /\ database = "up"
    /\ agent' = graph_created(agent)
    /\ via' = [via EXCEPT ![w] = agent'.graph]
    /\ UNCHANGED <<config_vars, model_name, store, rows, pc>>

delete_every_thread(checkpoints, s) == [x \in DOMAIN checkpoints |-> <<>>]

\* DELETE FROM table WHERE thread_id = session_id, for every table of
\* settings.CHECKPOINT_TABLES
delete_thread(checkpoints, s) == [checkpoints EXCEPT ![s] = <<>>]

clear_status_not_found(existing) == IF existing = <<>> THEN "500" ELSE "200"

delete_rows_of_all(tables, s, k) == [x \in DOMAIN tables |-> tables[x] \ Tables(k)]

\* The rows left when the DELETEs on the first k tables have run
delete_rows(tables, s, k) == [tables EXCEPT ![s] = @ \ Tables(k)]

\* A DELETE succeeds whatever number of rows it matches.
clear_status(existing) == "200"

\* DELETE /messages: agent.clear_chat_history(session.id)
ClearChatHistory(w, s) ==
    /\ pc[w] \in Free
    /\ LET status == clear_status(store[s])
       IN  /\ response' = [response EXCEPT ![w] =
                              IF status = "200"
                                THEN [status |-> "200", messages |-> <<>>, detail |-> ""]
                                ELSE chat_error("Exception")]
           /\ store' = IF status = "200" THEN delete_thread(store, s) ELSE store
           /\ rows' = IF status = "200" THEN delete_rows(rows, s, Len(CHECKPOINT_TABLES))
                      ELSE rows
    /\ deleted' = [deleted EXCEPT ![w] = store[s] # <<>>]
    /\ session_id' = [session_id EXCEPT ![w] = s]
    /\ mode' = [mode EXCEPT ![w] = "clear"]
    /\ NoRun(w)
    /\ database = "up"
    /\ agent' = pool_acquired(agent)
    /\ UNCHANGED <<config_vars, model_name, pc, via>>

Next ==
    \/ \E w \in Workers, s \in Sessions, input \in Inputs :
         StartRun(w, s, input) /\ UNCHANGED requests
    \/ \E w \in Workers :
         \E reply \in Replies(Len(messages[w]) + 1) : ChatOk(w, reply)
    \/ \E w \in Workers : ChatOpenAIError(w)
    \/ \E w \in Workers : ChatOtherError(w)
    \/ \E w \in Workers : ToolOk(w)
    \/ \E w \in Workers : ToolUnknown(w)
    \/ \E w \in Workers : ToolRaises(w)

\* Requests to /chat, served one at a time, under every configuration.
Spec == Init /\ [][Next]_vars

\* The node w's run is at goes on: its model call or tool invocation returns
\* or raises.
NodeStep(w) ==
    \/ \E reply \in Replies(Len(messages[w]) + 1) : ChatOk(w, reply)
    \/ ChatOpenAIError(w)
    \/ ChatOtherError(w)
    \/ ToolOk(w)
    \/ ToolUnknown(w)
    \/ ToolRaises(w)

\* Spec with every awaited model call and tool invocation coming back: the
\* event loop resumes a coroutine whose await is done.  (The bound on the
\* history makes the model stop asking for tools.)
SpecFair == Spec /\ \A w \in Workers : WF_vars(NodeStep(w))

(* --------------------------- the four endpoints ------------------------ *)

\* The retry loop and the fallback are explored under Spec; here a chat-node
\* execution has one attempt, or two.
InitEndpoints ==
    /\ Boot(Workers)
    /\ ENVIRONMENT = "development"
    /\ max_retries \in {1, 2}

NextEndpoints ==
    \/ \E w \in Workers, s \in Sessions, input \in Inputs :
         StartRun(w, s, input) /\ UNCHANGED requests
    \/ \E w \in Workers, s \in Sessions, input \in Inputs :
         StartStream(w, s, input) /\ UNCHANGED requests
    \/ \E w \in Workers :
         \E reply \in Replies(Len(messages[w]) + 1) : ChatOk(w, reply)
    \/ \E w \in Workers : ChatOpenAIError(w)
    \/ \E w \in Workers : ChatOtherError(w)
    \/ \E w \in Workers : ToolOk(w)
    \/ \E w \in Workers : ToolUnknown(w)
    \/ \E w \in Workers : ToolRaises(w)
    \/ \E w \in Workers, s \in Sessions : GetChatHistory(w, s) /\ UNCHANGED requests
    \/ \E w \in Workers, s \in Sessions : ClearChatHistory(w, s) /\ UNCHANGED requests

\* Requests to /chat, /chat/stream and /messages (GET and DELETE), served one
\* at a time.
SpecEndpoints == InitEndpoints /\ [][NextEndpoints]_vars

NextCancel ==
    \/ NextEndpoints
    \/ \E w \in Workers : Disconnect(w) /\ UNCHANGED requests

\* The four endpoints, with clients of streams that go away.
SpecCancel == InitEndpoints /\ [][NextCancel]_vars

(* ----------------------- a model that keeps asking --------------------- *)

\* What the model returns when it is explored as far as the executor lets a
\* run go: one more call of a tool, or a final reply.
LoopReplies(p) ==
    {AIMessage("", <<[id |-> <<p, 1>>, name |-> "search"]>>), AIMessage("txt", <<>>)}

InitLoop ==
    /\ Boot(Workers)
    /\ max_retries = 1

NextLoop ==
    \/ \E w \in Workers, s \in Sessions, input \in Inputs :
         StartRun(w, s, input) /\ UNCHANGED requests
    \/ \E w \in Workers, s \in Sessions, input \in Inputs :
         StartStream(w, s, input) /\ UNCHANGED requests
    \/ \E w \in Workers :
         \E reply \in LoopReplies(Len(messages[w]) + 1) : ChatOk(w, reply)
    \/ \E w \in Workers : ChatOpenAIError(w)
    \/ \E w \in Workers : ToolOk(w)
    \/ \E w \in Workers : ToolRaises(w)
    \/ \E w \in Workers : OutOfSteps(w)

\* Runs and streams, one at a time, whose length only the executor bounds.
SpecLoop == InitLoop /\ [][NextLoop]_vars

(* ------------------------- concurrent requests ------------------------- *)

\* Two requests in flight at once: coroutines of the one event loop, which
\* take turns at every await of the code above.
Coroutines == {"w1", "w2"}

\* The retry loop is explored under Spec; here every chat-node execution has
\* its one attempt.
InitConcurrent ==
    /\ Boot(Coroutines)
    /\ ENVIRONMENT = "development"
    /\ max_retries = 1

\* Requests served in one behaviour of SpecConcurrent.
MaxRequests == 2

\* The replies explored with two requests in flight: a final turn, and a
\* turn without content that asks for one tool.
ConcurrentReplies(p) ==
    {r \in Replies(p) :
        IF r.tool_calls = <<>> THEN r.content = "txt"
        ELSE r.content = "" /\ Len(r.tool_calls) = 1}

\* One more request is taken.
Served == requests < MaxRequests /\ requests' = requests + 1

NextConcurrent ==
    \/ \E w \in Coroutines, s \in Sessions, input \in Inputs :
         Served /\ StartRun(w, s, input)
    \/ \E w \in Coroutines, s \in Sessions, input \in Inputs :
         Served /\ StartStream(w, s, input)
    \/ \E w \in Coroutines :
         \E reply \in ConcurrentReplies(Len(messages[w]) + 1) : ChatOk(w, reply)
    \/ \E w \in Coroutines : ChatOpenAIError(w)
    \/ \E w \in Coroutines : ChatOtherError(w)
    \/ \E w \in Coroutines : ToolOk(w)
    \/ \E w \in Coroutines : ToolUnknown(w)
    \/ \E w \in Coroutines : ToolRaises(w)
    \/ \E w \in Coroutines, s \in Sessions : Served /\ GetChatHistory(w, s)
    \/ \E w \in Coroutines, s \in Sessions : Served /\ ClearChatHistory(w, s)

\* Requests to the four endpoints with two of them in flight at a time.
SpecConcurrent == InitConcurrent /\ [][NextConcurrent]_vars

(* -------------------- acquiring the checkpoint store ------------------- *)

\* Restarts of the process in one behaviour.
MaxRestarts == 1

is_production_everywhere == TRUE

\* settings.ENVIRONMENT == Environment.PRODUCTION, the test of
\* _get_connection_pool and create_graph for going on after a failure.
is_production == ENVIRONMENT = "production"

pool_not_open(a) == a.connection_pool # "open"

\* if self._connection_pool is None
pool_missing(a) == a.connection_pool = "none"

\* self._connection_pool = AsyncConnectionPool(..., open=False): the
\* attribute holds the pool from here on, before it is open.
pool_constructed(a) == [a EXCEPT !.connection_pool = "unopened", !.pools = @ + 1]

\* The handler of w's request raises e before any graph ran: HTTP 500, or
\* the error event of a stream.
Refuse(w, s, m, e) ==
    /\ pc' = [pc EXCEPT ![w] = "failed"]
    /\ session_id' = [session_id EXCEPT ![w] = s]
    /\ mode' = [mode EXCEPT ![w] = m]
    /\ response' = [response EXCEPT ![w] = IF m = "stream" THEN NoResponse ELSE chat_error(e)]
    /\ events' = [events EXCEPT ![w] = IF m = "stream" THEN on_stream_error(<<>>, e) ELSE <<>>]
    /\ messages' = [messages EXCEPT ![w] = <<>>]
    /\ base' = [base EXCEPT ![w] = 0]
    /\ attempt' = [attempt EXCEPT ![w] = 0]
    /\ outputs' = [outputs EXCEPT ![w] = <<>>]
    /\ calls' = [calls EXCEPT ![w] = <<>>]
    /\ deleted' = [deleted EXCEPT ![w] = FALSE]
    /\ via' = [via EXCEPT ![w] = "none"]
    /\ UNCHANGED <<config_vars, model_name, offered, store, rows>>

\* get_chat_history once self._graph is g: None has no get_state, a graph
\* without checkpointer raises in get_state, and so does a checkpointer
\* whose database does not answer.
Report(w, s, g) ==
    /\ LET values == state_values(store, s)
           answer ==
               CASE g = "none" -> chat_error("AttributeError")
                 [] g = "plain" -> chat_error("ValueError")
                 [] database = "down" -> chat_error("OperationalError")
                 [] history_raises(values) -> chat_error("ValidationError")
                 [] OTHER -> [status |-> "200", messages |-> get_chat_history(values),
                              detail |-> ""]
       IN  /\ response' = [response EXCEPT ![w] = answer]
           /\ pc' = [pc EXCEPT ![w] = IF answer.status = "200" THEN "end" ELSE "failed"]
    /\ session_id' = [session_id EXCEPT ![w] = s]
    /\ mode' = [mode EXCEPT ![w] = "history"]
    /\ deleted' = [deleted EXCEPT ![w] = FALSE]
    /\ via' = [via EXCEPT ![w] = g]
    /\ NoRun(w)
    /\ UNCHANGED <<config_vars, model_name, store, rows>>

\* clear_chat_history once _get_connection_pool has returned p: the DELETEs
\* need a connection of an open pool; None has no connection().
Delete(w, s, p) ==
    /\ LET done == p = "open" /\ database = "up"
       IN  /\ response' = [response EXCEPT ![w] =
                              IF done THEN [status |-> "200", messages |-> <<>>, detail |-> ""]
                              ELSE chat_error(IF p = "None" THEN "AttributeError"
                                              ELSE "OperationalError")]
           /\ store' = IF done THEN delete_thread(store, s) ELSE store
           /\ rows' = IF done THEN delete_rows(rows, s, Len(CHECKPOINT_TABLES)) ELSE rows
           /\ pc' = [pc EXCEPT ![w] = IF done THEN "end" ELSE "failed"]
           /\ deleted' = [deleted EXCEPT ![w] = done /\ store[s] # <<>>]
    /\ session_id' = [session_id EXCEPT ![w] = s]
    /\ mode' = [mode EXCEPT ![w] = "clear"]
    /\ via' = [via EXCEPT ![w] = "none"]
    /\ NoRun(w)
    /\ UNCHANGED <<config_vars, model_name>>

\* The handler of w's request goes on with self._graph being g.
Proceed(w, s, input, m, g) ==
    CASE m = "history" -> Report(w, s, g)
      [] m # "history" /\ g = "none" -> Refuse(w, s, m, "AttributeError")
      [] m # "history" /\ g = "checkpointed" /\ database = "down" ->
             Refuse(w, s, m, "OperationalError")
      [] OTHER -> EnterGraph(w, s, input, m, g)

\* The handler of w's request waits at an await of the creation (`at`), its
\* request in hand.
Await(w, s, input, m, at) ==
    /\ pc' = [pc EXCEPT ![w] = at]
    /\ session_id' = [session_id EXCEPT ![w] = s]
    /\ mode' = [mode EXCEPT ![w] = m]
    /\ messages' = [messages EXCEPT ![w] = add_messages(<<>>, dump_messages(input))]
    /\ response' = [response EXCEPT ![w] = NoResponse]
    /\ events' = [events EXCEPT ![w] = <<>>]
    /\ base' = [base EXCEPT ![w] = 0]
    /\ attempt' = [attempt EXCEPT ![w] = 0]
    /\ outputs' = [outputs EXCEPT ![w] = <<>>]
    /\ calls' = [calls EXCEPT ![w] = <<>>]
    /\ deleted' = [deleted EXCEPT ![w] = FALSE]
    /\ via' = [via EXCEPT ![w] = "none"]
    /\ UNCHANGED <<config_vars, model_name, offered, store, rows>>

\* get_response, get_stream_response or get_chat_history is called: with a
\* graph it goes on at once; without, create_graph builds one and comes to
\* its first await, the opening of the pool it has just made, or the setup
\* of a checkpointer over the pool that is there.
Arrive(w, s, input, m) ==
    /\ pc[w] \in Free
    /\ Persisted(Sessions) + Len(input) + 1 <= MaxHistory
    /\ (Persisted(Sessions) = 0 /\ \A v \in DOMAIN pc : pc[v] \in Free) => s = "s1"
    /\ IF agent.graph # "none"
         THEN agent' = agent /\ Proceed(w, s, input, m, agent.graph)
         ELSE IF pool_missing(agent)
                THEN agent' = pool_constructed(agent) /\ Await(w, s, input, m, "open")
                ELSE agent' = agent /\ Await(w, s, input, m, "setup")

\* clear_chat_history is called: it asks for the pool itself.
ArriveClear(w, s) ==
    /\ pc[w] \in Free
    /\ IF pool_missing(agent)
         THEN agent' = pool_constructed(agent) /\ Await(w, s, <<>>, "clear", "open")
         ELSE agent' = agent /\ Delete(w, s, agent.connection_pool)

\* What open() can do: it returns when the database answers; when it does
\* not, it raises or, not waiting for a first connection, returns a pool
\* whose connections fail.
OpenOutcomes == IF database = "up" THEN {TRUE} ELSE BOOLEAN

\* await self._connection_pool.open() is over.  When it raised, the pool
\* stays in the attribute unopened; in production _get_connection_pool
\* returns None and create_graph compiles without checkpointer, elsewhere
\* the exception leaves create_graph.
OpenDone(w, opened) ==
    /\ pc[w] = "open"
    /\ LET s == session_id[w]
           m == mode[w]
       IN  IF opened
             THEN /\ agent' = [agent EXCEPT !.connection_pool = "open"]
                  /\ IF m = "clear"
                       THEN Delete(w, s, "open")
                       ELSE /\ pc' = [pc EXCEPT ![w] = "setup"]
                            /\ UNCHANGED <<config_vars, model_name, store, rows, session_id,
                                           messages, attempt, outputs, response, calls,
                                           offered, base, mode, events, deleted, via>>
             ELSE IF is_production
                    THEN IF m = "clear"
                           THEN agent' = agent /\ Delete(w, s, "None")
                           ELSE /\ agent' = [agent EXCEPT !.graph = "plain"]
                                /\ Proceed(w, s, messages[w], m, "plain")
                    ELSE agent' = agent /\ Refuse(w, s, m, "OperationalError")

\* await checkpointer.setup() is over.  It needs a connection of an open
\* pool.  When it raised, create_graph returns None in production, which the
\* caller assigns to self._graph, and lets the exception go elsewhere.
SetupDone(w) ==
    /\ pc[w] = "setup"
    /\ LET s == session_id[w]
           m == mode[w]
       IN  IF database = "up" /\ agent.connection_pool = "open"
             THEN /\ agent' = [agent EXCEPT !.graph = "checkpointed"]
                  /\ Proceed(w, s, messages[w], m, "checkpointed")
             ELSE IF is_production
                    THEN /\ agent' = [agent EXCEPT !.graph = "none"]
                         /\ Proceed(w, s, messages[w], m, "none")
                    ELSE agent' = agent /\ Refuse(w, s, m, "OperationalError")

\* PostgreSQL stops answering, or answers again, between requests.
Outage ==
    /\ \A w \in DOMAIN pc : pc[w] \in Free
    /\ database' = IF database = "up" THEN "down" ELSE "up"
    /\ UNCHANGED <<ENVIRONMENT, max_retries, restarts, model_name, store, rows, pc, session_id,
                   messages, attempt, outputs, response, calls, offered, base, mode,
                   events, deleted, requests, agent, via>>

\* The process is restarted: a new agent is constructed, the requests in
\* flight are gone, and what PostgreSQL holds is what it held.
Restart ==
    /\ restarts < MaxRestarts
    /\ restarts' = restarts + 1
    /\ agent' = NewAgent
    /\ model_name' = LLM_MODEL
    /\ pc' = [w \in DOMAIN pc |-> "idle"]
    /\ session_id' = [w \in DOMAIN pc |-> "s1"]
    /\ messages' = [w \in DOMAIN pc |-> <<>>]
    /\ attempt' = [w \in DOMAIN pc |-> 0]
    /\ outputs' = [w \in DOMAIN pc |-> <<>>]
    /\ response' = [w \in DOMAIN pc |-> NoResponse]
    /\ calls' = [w \in DOMAIN pc |-> <<>>]
    /\ offered' = [w \in DOMAIN pc |-> <<>>]
    /\ base' = [w \in DOMAIN pc |-> 0]
    /\ mode' = [w \in DOMAIN pc |-> "run"]
    /\ events' = [w \in DOMAIN pc |-> <<>>]
    /\ deleted' = [w \in DOMAIN pc |-> FALSE]
    /\ via' = [w \in DOMAIN pc |-> "none"]
    /\ requests' = 0
    /\ UNCHANGED <<ENVIRONMENT, max_retries, database, store, rows>>

InitLifecycle ==
    /\ Boot(Workers)
    /\ max_retries = 1

NextLifecycle ==
    \/ \E w \in Workers, s \in Sessions, input \in Inputs :
         Served /\ Arrive(w, s, input, "run")
    \/ \E w \in Workers, s \in Sessions, input \in Inputs :
         Served /\ Arrive(w, s, input, "stream")
    \/ \E w \in Workers, s \in Sessions : Served /\ Arrive(w, s, <<>>, "history")
    \/ \E w \in Workers, s \in Sessions : Served /\ ArriveClear(w, s)
    \/ \E w \in Workers, opened \in OpenOutcomes : OpenDone(w, opened) /\ UNCHANGED requests
    \/ \E w \in Workers : SetupDone(w) /\ UNCHANGED requests
    \/ \E w \in Workers :
         \E reply \in ConcurrentReplies(Len(messages[w]) + 1) : ChatOk(w, reply)
    \/ \E w \in Workers : ChatOpenAIError(w)
    \/ \E w \in Workers : ToolOk(w)
    \/ Outage
    \/ Restart

\* The four endpoints on an agent that has yet to acquire its pool and its
\* graph, one request at a time, with a database that may be down and a
\* restart of the process.
SpecLifecycle == InitLifecycle /\ [][NextLifecycle]_vars

InitAcquire ==
    /\ Boot(Coroutines)
    /\ max_retries = 1

NextAcquire ==
    \/ \E w \in Coroutines, s \in Sessions, input \in Inputs :
         Served /\ Arrive(w, s, input, "run")
    \/ \E w \in Coroutines, s \in Sessions, input \in Inputs :
         Served /\ Arrive(w, s, input, "stream")
    \/ \E w \in Coroutines, s \in Sessions : Served /\ Arrive(w, s, <<>>, "history")
    \/ \E w \in Coroutines, s \in Sessions : Served /\ ArriveClear(w, s)
    \/ \E w \in Coroutines, opened \in OpenOutcomes :
         OpenDone(w, opened) /\ UNCHANGED requests
    \/ \E w \in Coroutines : SetupDone(w) /\ UNCHANGED requests
    \/ \E w \in Coroutines : ChatOk(w, AIMessage("txt", <<>>))
    \/ \E w \in Coroutines : ChatOpenAIError(w)
    \/ Outage

\* The acquisition with two requests in flight: the second may arrive while
\* the first waits for the pool to open or for the checkpointer's setup.
\* The runs that follow it are one model call long here.
SpecAcquire == InitAcquire /\ [][NextAcquire]_vars

(* --------------------------- a clear that fails ------------------------ *)

\* The DELETE on the k-th table raises.  The pool's connections are opened
\* with autocommit, so the DELETEs before it are committed; the exception
\* leaves clear_chat_history and the endpoint answers 500.  store keeps what
\* the rows of the tables not yet reached stand for.
ClearRaises(w, s, k) ==
    /\ pc[w] \in Free
    /\ database = "up"
    /\ agent' = pool_acquired(agent)
    /\ rows' = delete_rows(rows, s, k - 1)
    /\ response' = [response EXCEPT ![w] = chat_error("OperationalError")]
    /\ deleted' = [deleted EXCEPT ![w] = rows'[s] # rows[s]]
    /\ session_id' = [session_id EXCEPT ![w] = s]
    /\ mode' = [mode EXCEPT ![w] = "clear"]
    /\ NoRun(w)
    /\ UNCHANGED <<config_vars, model_name, pc, via, store>>

\* The thread of s has its rows in every table or in none.  What the
\* checkpointer reads from a thread with rows in some tables only is not
\* modelled: no run or history is explored on such a thread.
Intact(s) == rows[s] \in {{}, Tables(Len(CHECKPOINT_TABLES))}

InitClear ==
    /\ Boot(Workers)
    /\ ENVIRONMENT = "development"
    /\ max_retries = 1

NextClear ==
    \/ \E w \in Workers, s \in Sessions, input \in Inputs :
         Intact(s) /\ StartRun(w, s, input) /\ UNCHANGED requests
    \/ \E w \in Workers, s \in Sessions, input \in Inputs :
         Intact(s) /\ StartStream(w, s, input) /\ UNCHANGED requests
    \/ \E w \in Workers :
         \E reply \in Replies(Len(messages[w]) + 1) : ChatOk(w, reply)
    \/ \E w \in Workers : ChatOpenAIError(w)
    \/ \E w \in Workers : ToolOk(w)
    \/ \E w \in Workers, s \in Sessions :
         Intact(s) /\ GetChatHistory(w, s) /\ UNCHANGED requests
    \/ \E w \in Workers, s \in Sessions : ClearChatHistory(w, s) /\ UNCHANGED requests
    \/ \E w \in Workers, s \in Sessions, k \in 1..Len(CHECKPOINT_TABLES) :
         ClearRaises(w, s, k) /\ UNCHANGED requests

\* The endpoints, one request at a time, with DELETEs of a clear that may
\* raise.
SpecClear == InitClear /\ [][NextClear]_vars

(* ------------------------ session ids at the boundary ------------------ *)

\* POST /chat or /chat/stream for a session whose id is s, whatever s is:
\* get_response and get_stream_response pass it on as thread_id and as the
\* state's session_id.
Submit(w, s, input, m) ==
    /\ pc[w] \in Free
    /\ Persisted(DOMAIN store) + Len(input) + 1 <= MaxHistory
    /\ database = "up"
    /\ agent' = graph_created(agent)
    /\ EnterGraph(w, s, input, m, agent'.graph)

InitBoundary ==
    /\ BootOn(Workers, SessionIds)
    /\ ENVIRONMENT = "development"
    /\ max_retries = 1

NextBoundary ==
    \/ \E w \in Workers, s \in SessionIds, input \in Inputs :
         Submit(w, s, input, "run") /\ UNCHANGED requests
    \/ \E w \in Workers, s \in SessionIds, input \in Inputs :
         Submit(w, s, input, "stream") /\ UNCHANGED requests
    \/ \E w \in Workers : StateRejected(w)
    \/ \E w \in Workers : ChatOk(w, AIMessage("txt", <<>>))
    \/ \E w \in Workers : ChatOpenAIError(w)

\* Runs and streams on sessions whose ids are and are not well-formed.
SpecBoundary == InitBoundary /\ [][NextBoundary]_vars

(* ============================== claims ================================= *)

Terminal == {"idle", "end", "failed"}

\* The chat node of w returned on this step: its reply reached the state.
ChatReturned(w) == pc[w] = "chat" /\ messages'[w] # messages[w]

\* The tool node of w returned on this step.
ToolReturned(w) == pc[w] = "tool_call" /\ messages'[w] # messages[w]

HasToolCalls(m) == m.tool_calls # <<>>

\* C1: a run starts at the chat node; when the chat node has returned the run
\* is at the tool node iff the last message of the state carries tool calls
\* and has ended otherwise; when the tool node has returned the run is at the
\* chat node; there is no other move between nodes (a node that raises ends
\* the run as failed).
C1_GraphTransitions ==
    [][\A w \in Workers :
        /\ (pc[w] \in Terminal /\ pc'[w] # pc[w]) => pc'[w] = "chat"
        /\ ChatReturned(w) =>
              /\ pc'[w] = "tool_call" <=> HasToolCalls(Last(messages'[w]))
              /\ pc'[w] = "end" <=> ~HasToolCalls(Last(messages'[w]))
        /\ ToolReturned(w) => pc'[w] = "chat"
        /\ pc'[w] # pc[w] =>
              <<pc[w], pc'[w]>> \in
                  {<<"idle", "chat">>, <<"end", "chat">>, <<"failed", "chat">>,
                   <<"chat", "tool_call">>, <<"chat", "end">>, <<"chat", "failed">>,
                   <<"tool_call", "chat">>, <<"tool_call", "failed">>}
    ]_vars

\* A run that went chat -> tool_call -> chat and then ended.
C1_Witness ==
    \E w \in Workers :
        /\ pc[w] = "end"
        /\ Len(messages[w]) > base[w] + 2
        /\ messages[w][base[w] + 1].tool_calls # <<>>

\* Position of the latest assistant message of a state (0: none).
LastAI(msgs) ==
    LET ais == {p \in 1..Len(msgs) : msgs[p].type = "ai"}
    IN  IF ais = {} THEN 0 ELSE CHOOSE p \in ais : \A q \in ais : q <= p

\* Positions after p that hold a tool result for call id.
Answers(msgs, p, id) ==
    {q \in (p + 1)..Len(msgs) : msgs[q].type = "tool" /\ msgs[q].tool_call_id = id}

\* C2: whenever the chat node is about to run again within a run, every tool
\* call of the preceding assistant message has exactly one tool-result
\* message with its call id after it, and there is no other tool result.
C2_CallsResolvedOnce ==
    \A w \in Workers :
        (pc[w] = "chat" /\ Len(messages[w]) > base[w]) =>
            LET p == LastAI(messages[w])
                tcs == messages[w][p].tool_calls
            IN  /\ p > base[w]
                /\ \A j \in 1..Len(tcs) :
                       Cardinality(Answers(messages[w], p, tcs[j].id)) = 1
                /\ Cardinality({q \in (p + 1)..Len(messages[w]) :
                                   messages[w][q].type = "tool"}) = Len(tcs)

\* The chat node runs again after a turn with two tool calls.
C2_Witness ==
    \E w \in Workers :
        /\ pc[w] = "chat"
        /\ Len(messages[w]) > base[w]
        /\ Len(messages[w][LastAI(messages[w])].tool_calls) = 2

\* C3: for an assistant turn of the run at position p with calls c1..cn, once
\* the state has grown past it the next n messages are tool results carrying
\* id(c1)..id(cn) in that order, and what follows them is the next assistant
\* message.
C3_ResultsInCallOrder ==
    \A w \in Workers :
        \A p \in (base[w] + 1)..Len(messages[w]) :
            LET tcs == messages[w][p].tool_calls
                n == Len(tcs)
            IN  (messages[w][p].type = "ai" /\ n > 0 /\ Len(messages[w]) > p) =>
                    /\ Len(messages[w]) >= p + n
                    /\ \A j \in 1..n :
                           /\ messages[w][p + j].type = "tool"
                           /\ messages[w][p + j].tool_call_id = tcs[j].id
                    /\ Len(messages[w]) > p + n => messages[w][p + n + 1].type = "ai"

\* Two calls, search then calc, answered in that order before the next
\* assistant turn.
C3_Witness ==
    \E w \in Workers :
        LET p == base[w] + 1
        IN  /\ Len(messages[w]) = p + 3
            /\ Len(messages[w][p].tool_calls) = 2
            /\ messages[w][p].tool_calls[1].name = "search"
            /\ messages[w][p].tool_calls[2].name = "calc"
            /\ messages[w][p + 1].tool_call_id = messages[w][p].tool_calls[1].id
            /\ messages[w][p + 2].tool_call_id = messages[w][p].tool_calls[2].id
            /\ messages[w][p + 3].type = "ai"

HasUnknown(tcs) == \E j \in 1..Len(tcs) : tcs[j].name \notin tools_by_name

\* C4: while the tool node works on a turn one of whose calls names an
\* unregistered tool, no step of it reaches the chat node or changes the
\* state or the checkpoint; it can only go on or fail, and it does fail at
\* the unknown call.
C4_UnknownToolFatal ==
    [][\A w \in Workers :
        (pc[w] = "tool_call" /\ HasUnknown(pending(w))) =>
            /\ pc'[w] \in {"tool_call", "failed"}
            /\ messages'[w] = messages[w]
            /\ store' = store
            /\ current_call(w).name \notin tools_by_name => pc'[w] = "failed"
    ]_vars

\* The tool node failed on an unknown name after having invoked a registered
\* tool of the same turn; the checkpoint ends with the assistant turn.
C4_Witness ==
    \E w \in Workers :
        /\ pc[w] = "failed"
        /\ response[w].detail = "KeyError"
        /\ Len(pending(w)) = 2
        /\ pending(w)[1].name \in tools_by_name
        /\ store[session_id[w]] = messages[w]
        /\ Last(store[session_id[w]]).type = "ai"

(* ---- the chat node's attempts ---- *)

AllProviderErrors(log) == \A k \in 1..Len(log) : log[k].outcome = "OpenAIError"

\* C5: in one chat-node execution the model is called at most max_retries
\* times, every call that is followed by another call failed with a provider
\* error, and so a successful call is the last call of the execution.
C5_AtMostNAttempts ==
    \A w \in Workers :
        /\ Len(calls[w]) <= max_retries
        /\ \A k \in 1..(Len(calls[w]) - 1) : calls[w][k].outcome = "OpenAIError"

\* Three configured attempts, all used, the third one successful.
C5_Witness ==
    \E w \in Workers :
        /\ max_retries = 3
        /\ Len(calls[w]) = 3
        /\ calls[w][3].outcome = "ok"

\* The model was called for w on this step.
Called(w) == calls'[w] # calls[w] /\ calls'[w] # <<>>

\* C6: a failed attempt leaves the conversation state as it is, and the
\* successful attempt, whatever number of failures came before it, adds
\* exactly one message, the assistant reply, behind the unchanged state; the
\* injected system prompt is not added.
C6_OneMessagePerTurn ==
    [][\A w \in Workers :
        Called(w) =>
            IF Last(calls'[w]).outcome = "ok"
              THEN /\ Len(messages'[w]) = Len(messages[w]) + 1
                   /\ SubSeq(messages'[w], 1, Len(messages[w])) = messages[w]
                   /\ Last(messages'[w]).type = "ai"
              ELSE messages'[w] = messages[w]
    ]_vars

\* Two provider failures, then success: the state holds the request and one
\* reply.
C6_Witness ==
    \E w \in Workers :
        /\ Len(calls[w]) = 3
        /\ calls[w][1].outcome = "OpenAIError"
        /\ calls[w][2].outcome = "OpenAIError"
        /\ calls[w][3].outcome = "ok"
        /\ Len(messages[w]) = base[w] + 1
        /\ Last(messages[w]).type = "ai"

\* C7: on the step where the last configured attempt fails with a provider
\* error the node raises: the run is failed, the endpoint answers 500, and
\* neither the state nor the session's checkpoint gets a message.
C7_ExhaustedRetriesFail ==
    [][\A w \in Workers :
        (Called(w) /\ Len(calls'[w]) = max_retries /\ AllProviderErrors(calls'[w])) =>
            /\ pc'[w] = "failed"
            /\ response'[w].status = "500"
            /\ response'[w].messages = <<>>
            /\ messages'[w] = messages[w]
            /\ store' = store
    ]_vars

\* All three attempts failed; the checkpoint is the state the node started
\* from.
C7_Witness ==
    \E w \in Workers :
        /\ max_retries = 3
        /\ Len(calls[w]) = 3
        /\ AllProviderErrors(calls[w])
        /\ pc[w] = "failed"
        /\ response[w].status = "500"
        /\ store[session_id[w]] = messages[w]
        /\ Len(messages[w]) = base[w]

\* Attempts made after the second-to-last attempt failed use the fallback,
\* and no attempt after one on the fallback is on another model.
FallbackAfterSecondToLast(log) ==
    /\ \A k \in 1..Len(log) : k > max_retries - 1 => log[k].model = fallback_model
    /\ \A k \in 1..Len(log) : \A l \in 1..Len(log) :
           (k < l /\ log[k].model = fallback_model) => log[l].model = fallback_model

\* C8 as stated: with two or more configured attempts, in every chat-node
\* execution the attempts after the failed second-to-last one are made with
\* the fallback model and the execution never goes back to the primary.
C8_FallbackInEveryEnvironment ==
    \A w \in Workers : max_retries >= 2 => FallbackAfterSecondToLast(calls[w])

\* C8 amended: the above holds in the production environment; in the other
\* environments the node never switches, every attempt is made with the
\* configured model.
C8_FallbackInProduction ==
    \A w \in Workers :
        max_retries >= 2 =>
            IF ENVIRONMENT = "production"
              THEN FallbackAfterSecondToLast(calls[w])
              ELSE \A k \in 1..Len(calls[w]) : calls[w][k].model = LLM_MODEL

\* Production, three attempts: the first on the primary model, the third,
\* after two failures, on the fallback.
C8_Witness ==
    \E w \in Workers :
        /\ ENVIRONMENT = "production"
        /\ max_retries = 3
        /\ Len(calls[w]) = 3
        /\ calls[w][1].model = LLM_MODEL
        /\ calls[w][2].outcome = "OpenAIError"
        /\ calls[w][3].model = fallback_model

\* C9: the first attempt of every chat-node execution is made with the
\* configured primary model.
C9_FirstAttemptOnPrimary ==
    \A w \in Workers : calls[w] # <<>> => calls[w][1].model = LLM_MODEL

(* ---- the filtered view ---- *)

\* Positions of a state whose message is a user or assistant turn with content.
Visible(msgs) ==
    {i \in 1..Len(msgs) : msgs[i].type \in {"human", "ai"} /\ msgs[i].content # ""}

\* C10: what run returns holds one message per user or assistant turn of the
\* final state that has content, with that turn's role and content, in the
\* state's order, and nothing else; the checkpoint of the session holds the
\* whole final state, the turns left out of the view included.
C10_FilteredView ==
    \A w \in Workers :
        response[w].status = "200" =>
            LET msgs == messages[w]
                view == response[w].messages
                Rank(i) == Cardinality({j \in Visible(msgs) : j <= i})
            IN  /\ pc[w] = "end"
                /\ Len(view) = Cardinality(Visible(msgs))
                /\ \A i \in Visible(msgs) :
                       /\ view[Rank(i)].content = msgs[i].content
                       /\ view[Rank(i)].role =
                              (IF msgs[i].type = "human" THEN "user" ELSE "assistant")
                /\ store[session_id[w]] = msgs

\* A returned view that leaves out a system turn, a tool turn and an
\* assistant turn without content, all three still in the checkpoint.
C10_Witness ==
    \E w \in Workers :
        /\ response[w].status = "200"
        /\ \E i \in 1..Len(store[session_id[w]]) : store[session_id[w]][i].type = "system"
        /\ \E i \in 1..Len(store[session_id[w]]) : store[session_id[w]][i].type = "tool"
        /\ \E i \in 1..Len(store[session_id[w]]) :
               /\ store[session_id[w]][i].type = "ai"
               /\ store[session_id[w]][i].content = ""
        /\ \A k \in 1..Len(response[w].messages) :
               /\ response[w].messages[k].role \in {"user", "assistant"}
               /\ response[w].messages[k].content # ""
        /\ Len(response[w].messages) >= 2

(* ---- history and clear ---- *)

\* Positions of a state that hold a user or an assistant turn.
Turns(msgs) == {i \in 1..Len(msgs) : msgs[i].type \in {"human", "ai"}}

\* The list `view` holds, in the state's order, one message for each position
\* of P, with that turn's role and content, and nothing else.
ViewOf(view, msgs, P) ==
    LET Rank(i) == Cardinality({j \in P : j <= i})
    IN  /\ Len(view) = Cardinality(P)
        /\ \A i \in P :
               /\ view[Rank(i)].content = msgs[i].content
               /\ view[Rank(i)].role = (IF msgs[i].type = "human" THEN "user" ELSE "assistant")

\* C11 as stated: history returns one message for every user turn and every
\* assistant turn of the session's persisted state, in order, and leaves out
\* only the system and tool turns.
C11_HistoryEveryTurn ==
    \A w \in Workers :
        (mode[w] = "history" /\ response[w].status = "200") =>
            ViewOf(response[w].messages, store[session_id[w]], Turns(store[session_id[w]]))

\* C11 amended: history returns one message for every user turn and every
\* assistant turn with non-empty content of the session's persisted state, in
\* order; system turns, tool turns and assistant turns without content (the
\* usual turn that only asks for tools) are left out.
C11_HistoryVisibleTurns ==
    \A w \in Workers :
        (mode[w] = "history" /\ response[w].status = "200") =>
            ViewOf(response[w].messages, store[session_id[w]], Visible(store[session_id[w]]))

\* history after one run through a tool round: the request's system turn,
\* the assistant turn without content and the tool turn are persisted, the
\* view is the user message and the final reply.
C11_Witness ==
    \E w \in Workers :
        LET h == store[session_id[w]]
        IN  /\ mode[w] = "history"
            /\ response[w].status = "200"
            /\ Len(h) = 5
            /\ h[1].type = "system" /\ h[2].type = "human" /\ h[4].type = "tool"
            /\ h[3].type = "ai" /\ h[3].content = ""
            /\ response[w].messages = <<Message("user", "txt"), Message("assistant", "txt")>>

\* C12: history on a session without persisted state answers 200 with the
\* empty list.
C12_HistoryOfNothing ==
    \A w \in Workers :
        (mode[w] = "history" /\ store[session_id[w]] = <<>>) =>
            /\ response[w].status = "200"
            /\ response[w].messages = <<>>

\* history answered with the empty list for a session without state while the
\* other session holds a conversation.
C12_Witness ==
    \E w \in Workers :
        /\ mode[w] = "history"
        /\ store[session_id[w]] = <<>>
        /\ response[w] = [status |-> "200", messages |-> <<>>, detail |-> ""]
        /\ \E s \in Sessions : Len(store[s]) >= 2

\* C13: clear answers 200 whether or not the session had checkpoint data (so
\* also when it follows a clear), and when it has returned the session has no
\* persisted state and its history is the empty list.
C13_ClearIdempotent ==
    \A w \in Workers :
        mode[w] = "clear" =>
            /\ response[w].status = "200"
            /\ store[session_id[w]] = <<>>
            /\ ~history_raises(state_values(store, session_id[w]))
            /\ get_chat_history(state_values(store, session_id[w])) = <<>>

\* A clear that matched no row, after a conversation took place, and answered
\* 200.
C13_Witness ==
    \E w \in Workers :
        /\ mode[w] = "clear"
        /\ ~deleted[w]
        /\ response[w].status = "200"
        /\ store[session_id[w]] = <<>>
        /\ \E s \in Sessions : Len(store[s]) >= 2

(* ---- resuming a session ---- *)

IsPrefix(a, b) == Len(a) <= Len(b) /\ SubSeq(b, 1, Len(a)) = a

\* w enters the graph on this step.
Entering(w) == pc[w] \in Terminal /\ pc'[w] = "chat"

InjectedPrompt == <<SystemMessage(SYSTEM_PROMPT)>>

\* C14 as stated: the state of an invocation is the stored history followed
\* by the request's messages, and the list offered to the model is the
\* injected prompt followed by that whole state, so that every stored turn is
\* seen.
C14_OfferedWholeHistory ==
    [][\A w \in Workers :
        /\ Entering(w) =>
              /\ IsPrefix(store[session_id'[w]], messages'[w])
              /\ Len(messages'[w]) > Len(store[session_id'[w]])
        /\ Called(w) => offered'[w] = InjectedPrompt \o messages[w]
    ]_vars

\* C14 amended: the state of an invocation is the stored history followed by
\* the request's messages, and the list offered to the model is the injected
\* prompt followed by the longest suffix of that state that fits the token
\* budget and starts on a user message; the turns of the earlier call are
\* seen as far as they lie in that suffix.
C14_OfferedTrimmedHistory ==
    [][\A w \in Workers :
        /\ Entering(w) =>
              /\ IsPrefix(store[session_id'[w]], messages'[w])
              /\ Len(messages'[w]) > Len(store[session_id'[w]])
        /\ Called(w) =>
              \E k \in 0..Len(messages[w]) :
                  /\ offered'[w] = InjectedPrompt \o Suffix(messages[w], k)
                  /\ TokenCount(Suffix(messages[w], k)) <= MAX_TOKENS
                  /\ k > 0 => Suffix(messages[w], k)[1].type = "human"
                  /\ \A j \in (k + 1)..Len(messages[w]) :
                         \/ TokenCount(Suffix(messages[w], j)) > MAX_TOKENS
                         \/ Suffix(messages[w], j)[1].type # "human"
    ]_vars

\* The model call of a second invocation on a session is offered the user
\* and assistant turns of the first one ahead of the new user message.
C14_Witness ==
    \E w \in Workers :
        /\ calls[w] # <<>>
        /\ base[w] = 3
        /\ Len(offered[w]) = 4
        /\ offered[w][2].type = "human"
        /\ offered[w][3].type = "ai"
        /\ offered[w][4].type = "human"

\* C15: a step that is not a clear of the session leaves what the session had
\* persisted as a prefix of what it has persisted afterwards, and a request
\* that enters the graph makes the persisted list longer, the more so when
\* its messages repeat earlier ones.
C15_AppendOnly ==
    [][/\ \A s \in Sessions :
            \/ IsPrefix(store[s], store'[s])
            \/ \E w \in Workers : mode'[w] = "clear" /\ session_id'[w] = s
       /\ \A w \in Workers :
            Entering(w) =>
                /\ Len(store'[session_id'[w]]) > Len(store[session_id'[w]])
                /\ Last(store'[session_id'[w]]) = HumanMessage("txt")
    ]_vars

\* A session that a run and then a stream have each extended.
C15_Witness ==
    \E w \in Workers :
        /\ mode[w] = "stream"
        /\ pc[w] = "end"
        /\ base[w] = 3
        /\ Len(store[session_id[w]]) = 4
        /\ store[session_id[w]] = messages[w]

(* ---- the stream endpoint ---- *)

DoneEvents(evts) == {i \in 1..Len(evts) : evts[i].done}

ErrorTexts == {"RetriesExhausted", "Exception", "KeyError", "ToolException"}

\* C16: while a stream is being produced none of its events has done = true;
\* once it is over exactly one has, the last one: the sentinel with empty
\* content after a normal end, an event with the error text after a failure.
C16_OneTerminalEvent ==
    \A w \in Workers :
        mode[w] = "stream" =>
            /\ pc[w] \in {"chat", "tool_call"} => DoneEvents(events[w]) = {}
            /\ pc[w] \in {"end", "failed"} => DoneEvents(events[w]) = {Len(events[w])}
            /\ pc[w] = "end" => Last(events[w]) = StreamResponse("", TRUE)
            /\ pc[w] = "failed" => Last(events[w]).content \in ErrorTexts

\* A stream that ended normally after a tool round: fragments, then the
\* sentinel.
C16_Witness ==
    \E w \in Workers :
        /\ mode[w] = "stream"
        /\ pc[w] = "end"
        /\ Len(messages[w]) >= base[w] + 3
        /\ Len(events[w]) >= 4
        /\ Last(events[w]) = StreamResponse("", TRUE)

\* C17: on the step where a streaming run fails the consumer keeps every
\* event it had, may get the tokens handed out before the failure, and gets
\* one last event with done = true that carries the error text.
C17_FailureIsTerminalEvent ==
    [][\A w \in Workers :
        (mode[w] = "stream" /\ pc[w] \in {"chat", "tool_call"} /\ pc'[w] = "failed") =>
            /\ IsPrefix(events[w], events'[w])
            /\ Len(events'[w]) > Len(events[w])
            /\ Last(events'[w]).done
            /\ Last(events'[w]).content \in ErrorTexts
            /\ \A i \in 1..(Len(events'[w]) - 1) : ~events'[w][i].done
    ]_vars

\* A stream whose model turn was delivered and whose tool node then failed:
\* the fragments are followed by the error event.
C17_Witness ==
    \E w \in Workers :
        /\ mode[w] = "stream"
        /\ pc[w] = "failed"
        /\ Len(events[w]) >= 3
        /\ events[w][1] = StreamResponse("t", FALSE)
        /\ Last(events[w]) = StreamResponse("KeyError", TRUE)

RECURSIVE Concatenation(_)
\* The contents of the events that are not the closing one, joined.
Concatenation(evts) ==
    IF evts = <<>> THEN ""
    ELSE (IF evts[1].done THEN "" ELSE evts[1].content) \o Concatenation(Tail(evts))

\* C18: when a stream has ended normally, the contents of its fragments
\* joined are the content of the assistant message the turn ended on, the
\* last message of the persisted state.
C18_FragmentsAreTheReply ==
    \A w \in Workers :
        (mode[w] = "stream" /\ pc[w] = "end") =>
            Concatenation(events[w]) = Last(store[session_id[w]]).content

(* ---- requests in flight together ---- *)

\* The node w is in returned on this step and its superstep was checkpointed.
Checkpointed(w) == pc[w] \in {"chat", "tool_call"} /\ messages'[w] # messages[w]

\* C19: when an invocation on a session has completed and its messages are
\* persisted, a checkpoint written by another invocation on that session
\* keeps them: the persisted history still starts with the completed
\* invocation's state.
C19_NoLostTurn ==
    [][\A w \in Coroutines, v \in Coroutines :
        ( /\ w # v
          /\ Checkpointed(w)
          /\ session_id[v] = session_id[w]
          /\ mode[v] \in {"run", "stream"}
          /\ pc[v] = "end"
          /\ IsPrefix(messages[v], store[session_id[v]]) )
        => IsPrefix(messages[v], store'[session_id[v]])
    ]_vars

\* The coroutine w took this step.
Moved(w) ==
    \/ pc'[w] # pc[w]
    \/ messages'[w] # messages[w]
    \/ session_id'[w] # session_id[w]
    \/ mode'[w] # mode[w]
    \/ response'[w] # response[w]
    \/ outputs'[w] # outputs[w]
    \/ calls'[w] # calls[w]
    \/ attempt'[w] # attempt[w]
    \/ events'[w] # events[w]
    \/ deleted'[w] # deleted[w]

\* C20: whatever the interleaving, a step changes the persisted history of a
\* session only when it is a step of a request on that very session: the
\* coroutine that took the step serves that session (a clear that repeats a
\* clear leaves its coroutine as it was).
C20_SessionsIsolated ==
    [][\A s \in Sessions :
        store'[s] # store[s] =>
            \E w \in Coroutines :
                /\ session_id'[w] = s
                /\ Moved(w) \/ mode'[w] = "clear"
                /\ \A v \in Coroutines \ {w} : ~Moved(v)
    ]_vars

\* A run on one session between its tool node and its second model call
\* while a stream on the other session is at its model call, both persisted.
C20_Witness ==
    \E w \in Coroutines, v \in Coroutines :
        /\ session_id[w] # session_id[v]
        /\ mode[w] = "run" /\ pc[w] = "chat" /\ Len(messages[w]) = base[w] + 2
        /\ mode[v] = "stream" /\ pc[v] = "chat"
        /\ store[session_id[w]] = messages[w]
        /\ store[session_id[v]] = messages[v]

(* ---- failures, trimming and the view of history ---- *)

\* C23: when a run or stream has failed, the persisted history of its
\* session is what it was before the call: it does not hold the messages of
\* the failed call, so it is shorter than the state the call entered the
\* graph with.
C23_FailureLeavesNoState ==
    \A w \in Workers :
        (mode[w] \in {"run", "stream"} /\ pc[w] = "failed") =>
            Len(store[session_id[w]]) < base[w]

\* C24: the list of a model call is the injected system prompt, first and
\* always there, followed by whole messages of the stored history: a suffix
\* of it (the oldest messages are the ones left out) that fits the token
\* budget.
C24_PromptThenFittingSuffix ==
    [][\A w \in Workers :
        Called(w) =>
            /\ offered'[w] # <<>>
            /\ offered'[w][1] = SystemMessage(SYSTEM_PROMPT)
            /\ TokenCount(Tail(offered'[w])) <= MAX_TOKENS
            /\ \E k \in 0..Len(store[session_id[w]]) :
                   Tail(offered'[w]) = Suffix(store[session_id[w]], k)
    ]_vars

\* A model call has been offered the prompt and a part of the stored
\* history: the oldest messages were left out.
C24_Witness ==
    \E w \in Workers :
        /\ pc[w] = "chat"
        /\ calls[w] # <<>>
        /\ Len(offered[w]) > 1
        /\ Len(offered[w]) < Len(messages[w]) + 1

\* C28: a history request that follows a run on its session, nothing coming
\* between, is answered with the list the run returned.
C28_HistoryIsWhatRunReturned ==
    [][\A w \in Workers :
        ( /\ mode[w] = "run"
          /\ pc[w] = "end"
          /\ response[w].status = "200"
          /\ mode'[w] = "history"
          /\ session_id'[w] = session_id[w] )
        => response'[w] = response[w]
    ]_vars

\* A history request answered with the user and assistant turns of the run
\* that ended before it.
C28_Witness ==
    \E w \in Workers :
        /\ mode[w] = "history"
        /\ pc[w] = "end"
        /\ response[w].status = "200"
        /\ Len(response[w].messages) >= 2
        /\ response[w].messages = process_messages(store[session_id[w]])

(* ---- termination ---- *)

\* C25: a run that is at a node gets to its end or fails, and on the way no
\* chat-node execution makes more model calls than the configured number of
\* attempts.
C25_RunsTerminate ==
    /\ \A w \in Workers : (pc[w] \in {"chat", "tool_call"}) ~> (pc[w] \in {"end", "failed"})
    /\ [](\A w \in Workers : Len(calls[w]) <= max_retries /\ attempt[w] <= max_retries)

\* A run that went chat, tool_call, chat and ended, its last chat-node
\* execution having needed a second attempt.
C25_Witness ==
    \E w \in Workers :
        /\ pc[w] = "end"
        /\ Len(messages[w]) >= base[w] + 3
        /\ Len(calls[w]) = 2

C27_CancellationPropagates ==
    [][\A w \in Workers :
        mode'[w] = "closed" =>
            /\ pc'[w] = "cancelled"
            /\ calls'[w] = calls[w]
            /\ outputs'[w] = outputs[w]
            /\ messages'[w] = messages[w]
            /\ events'[w] = events[w]
    ]_vars

\* A stream closed after a round of tool calls had been streamed, with the
\* second model call never answered.
C27_Witness ==
    \E w \in Workers :
        /\ mode[w] = "closed"
        /\ pc[w] = "cancelled"
        /\ events[w] # <<>>
        /\ Last(messages[w]).type = "tool"
        /\ \A i \in 1..Len(events[w]) : ~events[w][i].done

(* ------------------------------ C21 ------------------------------------ *)

\* C21: the agent runs a graph without checkpointer only in the production
\* environment; in every other environment a run or stream that came out of
\* the creation of the graph runs on a graph with checkpointer, or has been
\* answered with an error before any model call.
C21_DegradedOnlyInProduction ==
    /\ agent.graph = "plain" => ENVIRONMENT = "production"
    /\ \A w \in DOMAIN pc :
         /\ via[w] = "plain" => ENVIRONMENT = "production"
         /\ (ENVIRONMENT # "production" /\ mode[w] \in {"run", "stream"}
                /\ pc[w] \notin {"idle", "open", "setup"})
            => \/ via[w] = "checkpointed"
               \/ /\ pc[w] = "failed"
                  /\ calls[w] = <<>>
                  /\ IF mode[w] = "run" THEN response[w].status = "500"
                     ELSE events[w] # <<>> /\ events[w][Len(events[w])].done

\* In production a run has completed on the graph without checkpointer, and
\* nothing of it is in the store.
C21_Witness ==
    \E w \in DOMAIN pc :
        /\ ENVIRONMENT = "production"
        /\ via[w] = "plain"
        /\ mode[w] = "run"
        /\ pc[w] = "end"
        /\ response[w].status = "200"
        /\ store[session_id[w]] = <<>>

\* Elsewhere the first run, with the database down, has been answered 500.
C21_WitnessRefused ==
    \E w \in DOMAIN pc :
        /\ ENVIRONMENT = "development"
        /\ database = "down"
        /\ agent.graph = "none"
        /\ mode[w] = "run"
        /\ pc[w] = "failed"
        /\ response[w].status = "500"

(* ------------------------------ C22 ------------------------------------ *)

\* w's history request is answered on this step.
Reported(w) ==
    /\ mode'[w] = "history"
    /\ pc'[w] \in {"end", "failed"}
    /\ pc[w] \in {"open", "setup"} \/ requests' = requests + 1

\* w's run or stream enters the graph on this step.
Resuming(w) == pc[w] \notin {"chat", "tool_call"} /\ pc'[w] = "chat"

\* What history returned for s while the process that wrote it was up.
Before(s) == get_chat_history(state_values(store, s))

C22_WitnessResumed ==
    \E w \in Workers :
        /\ restarts > 0
        /\ requests = 1
        /\ via[w] = "checkpointed"
        /\ mode[w] = "run"
        /\ pc[w] = "end"
        /\ base[w] >= 3

(* ------------------------------ C29 ------------------------------------ *)

\* C29: the agent has no pool until a request needs one; however the first
\* requests on any sessions interleave, it makes at most one pool, and every
\* request that reaches the store does so with that pool in place.
C29_OnePoolLazyShared ==
    /\ agent.pools <= 1
    /\ requests = 0 => agent.pools = 0
    /\ (agent.pools = 0) = (agent.connection_pool = "none")
    /\ \A w \in Coroutines :
         (via[w] = "checkpointed" \/ pc[w] \in {"open", "setup"}) => agent.pools = 1

\* Two first-time requests on different sessions are in the acquisition at
\* once, one waiting for the pool to open, and there is one pool.
C29_Witness ==
    \E w \in Coroutines, v \in Coroutines :
        /\ pc[w] = "open"
        /\ pc[v] = "setup"
        /\ session_id[w] # session_id[v]
        /\ agent.pools = 1

\* Runs on two sessions at once, both on the graph over the one pool.
C29_WitnessShared ==
    \E w \in Coroutines, v \in Coroutines :
        /\ w # v
        /\ session_id[w] # session_id[v]
        /\ via[w] = "checkpointed" /\ via[v] = "checkpointed"
        /\ pc[w] = "chat" /\ pc[v] = "chat"
        /\ agent.pools = 1

(* ------------------------------ C30 ------------------------------------ *)

\* A UUID, or alphanumeric characters, '-' and '_' and nothing else.
WellFormed(chars) ==
    \/ uuid_parses(chars)
    \/ chars # <<>> /\ \A i \in 1..Len(chars) : chars[i] \in SafeCharacters

\* C30: a state is built only with a well-formed session id; a run or stream
\* whose session id is not well-formed makes no model call and persists
\* nothing, and ends rejected with a validation error.
C30_IllFormedIdRejectedFirst ==
    \A w \in Workers :
        /\ (pc[w] # "idle" /\ Coerced(w)) => WellFormed(Characters(session_id[w]))
        /\ (pc[w] # "idle" /\ ~WellFormed(Characters(session_id[w]))) =>
              /\ calls[w] = <<>>
              /\ store[session_id[w]] = <<>>
              /\ pc[w] \in {"chat", "failed"}
              /\ (pc[w] = "failed" /\ mode[w] = "run") =>
                    response[w] = chat_error("ValidationError")

\* What the code does keep: an id with a character other than those, a line
\* feed at its end apart, gets no model call.
C30_NoModelCallOnRejectedId ==
    \A w \in Workers : (pc[w] # "idle" /\ ~Coerced(w)) => calls[w] = <<>>

\* A run on an id with a space has been rejected.
C30_Witness ==
    \E w \in Workers :
        /\ session_id[w] = "s 1"
        /\ mode[w] = "run"
        /\ pc[w] = "failed"
        /\ response[w] = chat_error("ValidationError")

(* ------------------------------ C31 ------------------------------------ *)

\* Every assistant message of msgs with tool calls is followed at once by one
\* tool result per call id, before any later user or assistant message.
Resolved(msgs) ==
    \A p \in 1..Len(msgs) :
        (msgs[p].type = "ai" /\ msgs[p].tool_calls # <<>>) =>
            LET tcs == msgs[p].tool_calls
            IN  /\ p + Len(tcs) <= Len(msgs)
                /\ \A q \in (p + 1)..(p + Len(tcs)) : msgs[q].type = "tool"
                /\ \A j \in 1..Len(tcs) :
                       Cardinality({q \in (p + 1)..(p + Len(tcs)) :
                                       msgs[q].tool_call_id = tcs[j].id}) = 1

\* C31: when no run or stream is in flight, whatever requests came before
\* and however they ended, no persisted history holds an unresolved tool
\* call.
C31_NoUnresolvedToolCall ==
    (\A w \in Workers : pc[w] \in Free) => \A s \in Sessions : Resolved(store[s])

\* What holds: among the messages a run or stream that ended normally has
\* added to the state, every tool call is resolved.
C31_ResolvedWhenEnded ==
    \A w \in Workers :
        (mode[w] \in {"run", "stream"} /\ pc[w] = "end") =>
            Resolved(SubSeq(messages[w], base[w] + 1, Len(messages[w])))

(* ------------------------------ C33 ------------------------------------ *)

\* A model call of w's chat node raises, on this step, an exception that is
\* not an OpenAIError.
OtherRaised(w) ==
    /\ pc[w] = "chat"
    /\ Len(calls'[w]) = Len(calls[w]) + 1
    /\ calls'[w][Len(calls'[w])].outcome = "Exception"

\* C33: when a model call raises an exception that is not an OpenAIError, the
\* run fails on that step with that exception: the attempt counter and the
\* shared model stay as they were, the state and the store get no message,
\* and no model call follows it in the node.
C33_OnlyProviderErrorsRetried ==
    [][\A w \in Workers :
        /\ OtherRaised(w) =>
              /\ pc'[w] = "failed"
              /\ attempt'[w] = attempt[w]
              /\ model_name' = model_name
              /\ messages'[w] = messages[w]
              /\ store' = store
              /\ mode[w] = "run" => response'[w] = chat_error("Exception")
        /\ \A i \in 1..(Len(calls'[w]) - 1) : calls'[w][i].outcome # "Exception"
    ]_vars

\* In production, with attempts left and the fallback switch due at this
\* attempt, a model call has raised something else and the run has failed on
\* the configured model.
C33_Witness ==
    \E w \in Workers :
        /\ ENVIRONMENT = "production"
        /\ max_retries = 2
        /\ pc[w] = "failed"
        /\ Len(calls[w]) = 1
        /\ calls[w][1].outcome = "Exception"
        /\ attempt[w] = 0
        /\ model_name = LLM_MODEL

(* ------------------------------ C32 ------------------------------------ *)

\* C32: in production a run or stream that has come out of the creation of
\* the graph while the agent has no graph over the checkpoint store runs on
\* the graph without checkpointer: it is not refused, it persists nothing,
\* and when it has ended the run has returned the model's reply.
C32_DegradedModeAnswers ==
    \A w \in Workers :
        ( /\ ENVIRONMENT = "production"
          /\ mode[w] \in {"run", "stream"}
          /\ pc[w] \notin {"idle", "open", "setup"}
          /\ agent.graph # "checkpointed" )
        => /\ via[w] = "plain"
           /\ (pc[w] = "end" /\ mode[w] = "run") =>
                 /\ response[w].status = "200"
                 /\ response[w].messages = process_messages(messages[w])

(* ------------------------------ C34 ------------------------------------ *)

\* C34: a caller that has the pool from _get_connection_pool, and goes on to
\* the checkpointer's setup with it, has a pool whose open() has returned;
\* and unless a request is waiting in open(), the agent keeps either no pool
\* or an open one, so that a failed open() leaves the reference empty.
C34_HandedPoolIsOpen ==
    /\ \A w \in Coroutines : pc[w] = "setup" => agent.connection_pool = "open"
    /\ (\A w \in Coroutines : pc[w] # "open") => agent.connection_pool # "unopened"

(* ------------------------------ C35 ------------------------------------ *)

\* w's clear is answered on this step.
Cleared(w) == mode'[w] = "clear" /\ (rows' # rows \/ response'[w] # response[w])

\* C35: a clear either answers 200 with the session's rows gone from every
\* checkpoint table, or answers with an error and leaves the session's rows
\* and checkpoint as they were.
C35_ClearAllOrNothing ==
    [][\A w \in Workers :
        Cleared(w) =>
            \/ /\ response'[w].status = "200"
               /\ rows'[session_id'[w]] = {}
               /\ store'[session_id'[w]] = <<>>
            \/ /\ response'[w].status = "500"
               /\ rows'[session_id'[w]] = rows[session_id'[w]]
               /\ store'[session_id'[w]] = store[session_id'[w]]
    ]_vars

\* What holds: a clear that returns has removed the session's rows from the
\* three tables, and a clear that raises has removed them from the tables
\* before the one whose DELETE raised and from no other.
C35_ClearUpToFailure ==
    [][\A w \in Workers :
        Cleared(w) =>
            \/ /\ response'[w].status = "200"
               /\ rows'[session_id'[w]] = {}
               /\ store'[session_id'[w]] = <<>>
            \/ /\ response'[w].status = "500"
               /\ \E k \in 1..Len(CHECKPOINT_TABLES) :
                      rows'[session_id'[w]] = rows[session_id'[w]] \ Tables(k - 1)
    ]_vars

(* ------------------------------ C36 ------------------------------------ *)

\* C36: a clear, whether it returns or raises, leaves the rows, the
\* checkpoint and the history of every session but its own as they were.
C36_ClearTouchesOneSession ==
    [][\A w \in Workers :
        Cleared(w) =>
            \A s \in Sessions \ {session_id'[w]} :
                /\ rows'[s] = rows[s]
                /\ store'[s] = store[s]
                /\ get_chat_history(state_values(store', s))
                       = get_chat_history(state_values(store, s))
    ]_vars

\* A clear has removed the rows of its session while another session has a
\* history.
C36_Witness ==
    \E w \in Workers, s \in Sessions :
        /\ mode[w] = "clear"
        /\ response[w].status = "200"
        /\ deleted[w]
        /\ s # session_id[w]
        /\ rows[session_id[w]] = {}
        /\ rows[s] = Tables(Len(CHECKPOINT_TABLES))
        /\ Len(get_chat_history(state_values(store, s))) >= 2

(* ------------------------------ C37 ------------------------------------ *)

\* v's clear of the session of w's run or stream has returned while w was in
\* flight: w is at a node and the checkpoint it wrote on entry is gone.
ClearedInFlight(w, v) ==
    /\ w # v
    /\ pc[w] \in {"chat", "tool_call"}
    /\ mode[v] = "clear"
    /\ response[v].status = "200"
    /\ session_id[v] = session_id[w]
    /\ deleted[v]
    /\ store[session_id[w]] = <<>>

\* C37: a clear that returned while a run or stream on its session was in
\* flight stays in effect: what the run persists afterwards does not bring
\* back the messages that were persisted before the clear.
C37_ClearWinsOverRunInFlight ==
    [][\A w \in Coroutines, v \in Coroutines :
        ClearedInFlight(w, v) =>
            \/ store'[session_id[w]] = <<>>
            \/ ~IsPrefix(messages[w], store'[session_id[w]])
    ]_vars

\* What holds: a clear that returns leaves the session without checkpoint at
\* that moment, whatever is in flight.
C37_ClearEmptiesAtReturn ==
    [][\A v \in Coroutines :
        (mode'[v] = "clear" /\ response'[v] # response[v] /\ response'[v].status = "200")
            => store'[session_id'[v]] = <<>> /\ rows'[session_id'[v]] = {}
    ]_vars

(* ------------------------------ C38 ------------------------------------ *)

\* C38: the filtered view can be built of every persisted state: a run that
\* has reached its end has answered 200, and a history request has been
\* answered 200, whatever the replies of the model were.
C38_ViewNeverFails ==
    /\ \A s \in Sessions : ~process_messages_raises(store[s])
    /\ \A w \in Workers :
         /\ (mode[w] = "run" /\ pc[w] = "end") => response[w].status = "200"
         /\ (mode[w] = "history" /\ response[w] # NoResponse) => response[w].status = "200"

\* What holds: the view fails on a persisted state only for an assistant
\* message whose content is longer than the schema allows.
C38_FailsOnLongReplyOnly ==
    \A s \in Sessions :
        process_messages_raises(store[s]) =>
            \E i \in 1..Len(store[s]) :
                store[s][i].type = "ai" /\ ContentLen(store[s][i].content) > max_length

====
